---- MODULE Spec2Model ----
(***************************************************************************)
(* A model of the position core (src/src/position.cpp) and of the          *)
(* transposition table (src/src/tt.cpp).                                   *)
(*                                                                         *)
(* Conventions                                                             *)
(*  - a Bitboard is the set of its squares (0..63, A1 = 0, H8 = 63); the   *)
(*    C++ operators |, & and ^ are union, intersection and symmetric       *)
(*    difference (XorBB).                                                  *)
(*  - a Zobrist Key is the set of the PRNG draws XOR-ed into it: the n-th  *)
(*    draw of Position::init() is the key {n}, zero is {} and ^ is the     *)
(*    symmetric difference. Two keys built from different draws are        *)
(*    different keys.                                                      *)
(*  - a Position is a record p; StateInfo objects live in the sequence     *)
(*    p.si, p.st is the index of the current one and `previous' of si[i]   *)
(*    is si[i-1] (0 is the null pointer).                                  *)
(*  - a 64 bit TT key is the tuple of its four 16 bit words, most          *)
(*    significant first.                                                   *)
(***************************************************************************)
EXTENDS Integers, FiniteSets, Sequences, TLC

VARIABLES board, byTypeBB, byColorBB, pieceCount, castlingRightsMask,
          castlingRookSquare, castlingPath, sideToMove, gamePly, chess960,
          st, si, moves, snapshots, maxPly,
          table, generation8, tte, found, ttKey, ttOps, lastOp, lastSave, trial,
          threads, mem, zobrist

posVars == <<board, byTypeBB, byColorBB, pieceCount, castlingRightsMask,
             castlingRookSquare, castlingPath, sideToMove, gamePly, chess960,
             st, si, moves, snapshots, maxPly>>
ttVars  == <<table, generation8, tte, found, ttKey, ttOps, lastOp, lastSave, trial>>
auxVars == <<threads, mem, zobrist>>
vars    == <<posVars, ttVars, auxVars>>

(***************************************************************************)
(* Types (types.h)                                                         *)
(***************************************************************************)
WHITE == 0
BLACK == 1
ALL_PIECES == 0
PAWN == 1
KNIGHT == 2
BISHOP == 3
ROOK == 4
QUEEN == 5
KING == 6
NO_PIECE == 0
SQ_NONE == 64
SQ_A1 == 0
SQ_C1 == 2
SQ_D1 == 3
SQ_F1 == 5
SQ_G1 == 6
SQ_H1 == 7
SQ_A8 == 56
NORMAL == 0
PROMOTION == 16384
ENPASSANT == 32768
CASTLING == 49152
WHITE_OO == 1
WHITE_OOO == 2
BLACK_OO == 4
BLACK_OOO == 8

Squares == 0 .. 63
Colors == {WHITE, BLACK}
PieceTypes == PAWN .. KING
\* constexpr Piece Pieces[]
Pieces == <<1, 2, 3, 4, 5, 6, 9, 10, 11, 12, 13, 14>>

Not(c) == 1 - c
make_piece(c, pt) == 8 * c + pt
type_of(pc) == pc % 8
color_of(pc) == pc \div 8
file_of(s) == s % 8
rank_of(s) == s \div 8
make_square(f, r) == 8 * r + f
relative_rank(c, r) == IF c = WHITE THEN r ELSE 7 - r
relative_square(c, s) == IF c = WHITE THEN s ELSE make_square(file_of(s), 7 - rank_of(s))
pawn_push(c) == IF c = WHITE THEN 8 ELSE -8

\* Move: bits 0-5 to, 6-11 from, 12-13 promotion piece - KNIGHT, 14-15 type
make_move(from, to) == 64 * from + to
make(T, from, to, pt) == T + 4096 * (pt - KNIGHT) + 64 * from + to
from_sq(m) == (m \div 64) % 64
to_sq(m) == m % 64
type_of_move(m) == m - (m % 16384)
promotion_type(m) == ((m \div 4096) % 4) + KNIGHT
AllMoves == 0 .. 65535

\* CastlingRights are sets of single rights; c & KING_SIDE etc.
KING_SIDE == {WHITE_OO, BLACK_OO}
QUEEN_SIDE == {WHITE_OOO, BLACK_OOO}
ANY_CASTLING == {WHITE_OO, WHITE_OOO, BLACK_OO, BLACK_OOO}
RightsOf(c) == IF c = WHITE THEN {WHITE_OO, WHITE_OOO} ELSE {BLACK_OO, BLACK_OOO}

\* PieceValue[MG][pc]
PieceValueMg(pc) ==
  CASE type_of(pc) = PAWN -> 128
    [] type_of(pc) = KNIGHT -> 781
    [] type_of(pc) = BISHOP -> 825
    [] type_of(pc) = ROOK -> 1276
    [] type_of(pc) = QUEEN -> 2538
    [] OTHER -> 0

(***************************************************************************)
(* Bitboards (bitboard.h)                                                  *)
(***************************************************************************)
XorBB(a, b) == (a \ b) \cup (b \ a)
Abs(a) == IF a < 0 THEN -a ELSE a
FileDist(a, b) == Abs(file_of(a) - file_of(b))
RankDist(a, b) == Abs(rank_of(a) - rank_of(b))
distance(a, b) == IF FileDist(a, b) > RankDist(a, b) THEN FileDist(a, b) ELSE RankDist(a, b)
more_than_one(b) == Cardinality(b) > 1
\* lsb(b): the least significant square of a non-empty bitboard
lsb(b) == CHOOSE s \in b : \A t \in b : s <= t

OnRookLine(a, b) == a # b /\ (file_of(a) = file_of(b) \/ rank_of(a) = rank_of(b))
OnBishopLine(a, b) == a # b /\ FileDist(a, b) = RankDist(a, b)

\* PseudoAttacks[pt][s]: attacks on an empty board
PseudoAttacks ==
  [pt \in KNIGHT .. KING |-> [s \in Squares |->
     CASE pt = KNIGHT -> {t \in Squares : {FileDist(s, t), RankDist(s, t)} = {1, 2}}
       [] pt = BISHOP -> {t \in Squares : OnBishopLine(s, t)}
       [] pt = ROOK   -> {t \in Squares : OnRookLine(s, t)}
       [] pt = QUEEN  -> {t \in Squares : OnBishopLine(s, t) \/ OnRookLine(s, t)}
       [] pt = KING   -> {t \in Squares : distance(s, t) = 1}]]

\* PawnAttacks[c][s]
PawnAttacks ==
  [c \in Colors |-> [s \in Squares |->
     {t \in Squares : FileDist(s, t) = 1 /\ rank_of(t) - rank_of(s) = (IF c = WHITE THEN 1 ELSE -1)}]]

\* LineBB[a][b]: the whole line through a and b (with a and b), or empty
LineBB ==
  [a \in Squares |-> [b \in Squares |->
     IF OnRookLine(a, b)
       THEN {t \in Squares : t = a \/ (OnRookLine(a, t) /\ (t = b \/ OnRookLine(t, b)))}
     ELSE IF OnBishopLine(a, b)
       THEN {t \in Squares : t = a \/ (OnBishopLine(a, t) /\ (t = b \/ OnBishopLine(t, b)))}
     ELSE {}]]

\* BetweenBB[a][b]: the squares strictly between a and b on a common line
BetweenBB ==
  [a \in Squares |-> [b \in Squares |->
     {t \in LineBB[a][b] : t # a /\ t # b /\ distance(a, t) + distance(t, b) = distance(a, b)}]]

between_bb(a, b) == BetweenBB[a][b]
aligned(a, b, c) == c \in LineBB[a][b]

\* attacks_bb<Pt>(s, occupied) and attacks_bb(pt, s, occupied)
attacks_bb(pt, s, occupied) ==
  IF pt \in {BISHOP, ROOK, QUEEN}
    THEN {t \in PseudoAttacks[pt][s] : BetweenBB[s][t] \cap occupied = {}}
    ELSE PseudoAttacks[pt][s]

(***************************************************************************)
(* Zobrist keys                                                            *)
(***************************************************************************)
\* rng.rand<Key>(): the n-th draw
Rand(n) == {n}
XorKey(a, b) == (a \ b) \cup (b \ a)
PieceIndex(pc) == IF pc < 8 THEN pc ELSE pc - 2

\* Zobrist::psq[pc][s]: drawn for the twelve Pieces, zero for the others
Zobrist_psq(pc, s) ==
  IF type_of(pc) \in PieceTypes /\ color_of(pc) \in Colors
    THEN Rand(64 * (PieceIndex(pc) - 1) + s + 1)
    ELSE {}
Zobrist_enpassant(f) == Rand(768 + f + 1)
\* castling[cr]: one draw for each single right, the XOR of them for cr
CastlingDraw(r) == CASE r = WHITE_OO -> 777 [] r = WHITE_OOO -> 778 [] r = BLACK_OO -> 779 [] OTHER -> 780
Zobrist_castling(cr) == {CastlingDraw(r) : r \in cr}
Zobrist_noPawns == Rand(781)
Zobrist_side == Rand(782)

\* the single rights of the castling mask cr (0..15)
RightsOfMask(cr) == {r \in ANY_CASTLING : (cr \div r) % 2 = 1}
\* 1ULL << lsb(b) for a mask b # 0
LowestBit(b) == CHOOSE v \in ANY_CASTLING : (b \div v) % 2 = 1 /\ b % v = 0

\* the loops of Position::init(): pc is the loop, i its index, draws the
\* number of rng.rand<Key>() calls so far, last the last table entry
\* written; castling is Zobrist::castling, cr and b the locals of its loop
ZobristStart ==
  [pc |-> "psq", i |-> 0, draws |-> 0, last |-> <<>>,
   castling |-> [cr \in 0 .. 15 |-> {}], cr |-> 0, b |-> 0,
   noPawns |-> {}, side |-> {}]

\* the tables as init() leaves them
ZobristReady ==
  [pc |-> "done", i |-> 0, draws |-> 782, last |-> <<"side", 0, 0, Zobrist_side>>,
   castling |-> [cr \in 0 .. 15 |-> Zobrist_castling(RightsOfMask(cr))], cr |-> 16, b |-> 0,
   noPawns |-> Zobrist_noPawns, side |-> Zobrist_side]

\* the inner loop as it would be if every bit took a fresh draw
InitCastlingBit_AlwaysDraws(z) ==
  IF z.b = 0 THEN [z EXCEPT !.pc = "castling", !.cr = @ + 1]
  ELSE [z EXCEPT !.b = z.b - LowestBit(z.b),
                 !.castling[z.cr] = XorKey(@, Rand(z.draws + 1)),
                 !.draws = @ + 1]

\* one turn of while (b): k = castling[1ULL << pop_lsb(&b)];
\* castling[cr] ^= k ? k : rng.rand<Key>() (lines 118-122)
InitCastlingBit(z) ==
  IF z.b = 0 THEN [z EXCEPT !.pc = "castling", !.cr = @ + 1]
  ELSE LET k == z.castling[LowestBit(z.b)]
       IN [z EXCEPT !.b = z.b - LowestBit(z.b),
                    !.castling[z.cr] = XorKey(@, IF k # {} THEN k ELSE Rand(z.draws + 1)),
                    !.draws = IF k # {} THEN @ ELSE @ + 1]

\* one statement of Position::init() (lines 104-129)
InitStep(z) ==
  CASE z.pc = "psq" ->
         [z EXCEPT !.last = <<"psq", Pieces[(z.i \div 64) + 1], z.i % 64, Rand(z.draws + 1)>>,
                   !.draws = @ + 1,
                   !.i = IF z.i + 1 < 64 * Len(Pieces) THEN @ + 1 ELSE 0,
                   !.pc = IF z.i + 1 < 64 * Len(Pieces) THEN @ ELSE "enpassant"]
    [] z.pc = "enpassant" ->
         [z EXCEPT !.last = <<"enpassant", 0, z.i, Rand(z.draws + 1)>>,
                   !.draws = @ + 1,
                   !.i = IF z.i + 1 < 8 THEN @ + 1 ELSE 0,
                   !.pc = IF z.i + 1 < 8 THEN @ ELSE "castling"]
    [] z.pc = "castling" ->
         IF z.cr <= 15 THEN [z EXCEPT !.castling[z.cr] = {}, !.b = z.cr, !.pc = "bits"]
         ELSE [z EXCEPT !.noPawns = Rand(z.draws + 1), !.draws = @ + 1, !.pc = "side",
                        !.last = <<"noPawns", 0, 0, Rand(z.draws + 1)>>]
    [] z.pc = "bits" -> InitCastlingBit(z)
    [] OTHER ->
         [z EXCEPT !.side = Rand(z.draws + 1), !.draws = @ + 1, !.pc = "done",
                   !.last = <<"side", 0, 0, Rand(z.draws + 1)>>]

(***************************************************************************)
(* Position state and its primitives (position.h)                          *)
(***************************************************************************)
\* std::memset(si, 0, sizeof(StateInfo))
ZeroStateInfo ==
  [pawnKey |-> {}, materialKey |-> {}, nonPawnMaterial |-> [c \in Colors |-> 0],
   castlingRights |-> {}, rule50 |-> 0, pliesFromNull |-> 0, epSquare |-> 0,
   key |-> {}, checkersBB |-> {}, capturedPiece |-> NO_PIECE,
   blockersForKing |-> [c \in Colors |-> {}], pinners |-> [c \in Colors |-> {}],
   checkSquares |-> [pt \in PieceTypes |-> {}], repetition |-> 0]

\* std::memset(this, 0, sizeof(Position)); st = si
ZeroPosition(isChess960) ==
  [board |-> [s \in Squares |-> NO_PIECE],
   byTypeBB |-> [pt \in ALL_PIECES .. KING |-> {}],
   byColorBB |-> [c \in Colors |-> {}],
   pieceCount |-> [pc \in 0 .. 15 |-> 0],
   castlingRightsMask |-> [s \in Squares |-> {}],
   castlingRookSquare |-> [r \in ANY_CASTLING |-> 0],
   castlingPath |-> [r \in ANY_CASTLING |-> {}],
   sideToMove |-> WHITE, gamePly |-> 0, chess960 |-> isChess960,
   st |-> 1, si |-> <<ZeroStateInfo>>]

pieces(p) == p.byTypeBB[ALL_PIECES]
pieces_c(p, c) == p.byColorBB[c]
pieces_ct(p, c, pt) == p.byColorBB[c] \cap p.byTypeBB[pt]
piece_on(p, s) == p.board[s]
empty(p, s) == p.board[s] = NO_PIECE
moved_piece(p, m) == p.board[from_sq(m)]
\* square<KING>(c)
square_KING(p, c) == CHOOSE s \in Squares : pieces_ct(p, c, KING) = {} \/ s \in pieces_ct(p, c, KING)
checkers(p) == p.si[p.st].checkersBB

put_piece(p, pc, s) ==
  [p EXCEPT !.board[s] = pc,
            !.byTypeBB[ALL_PIECES] = @ \cup {s},
            !.byTypeBB[type_of(pc)] = IF type_of(pc) = ALL_PIECES THEN @ ELSE @ \cup {s},
            !.byColorBB[color_of(pc)] = @ \cup {s},
            !.pieceCount[pc] = @ + 1,
            !.pieceCount[make_piece(color_of(pc), ALL_PIECES)] = @ + 1]

\* board[s] is left as it is
remove_piece(p, pc, s) ==
  [p EXCEPT !.byTypeBB[ALL_PIECES] = XorBB(@, {s}),
            !.byTypeBB[type_of(pc)] = IF type_of(pc) = ALL_PIECES THEN @ ELSE XorBB(@, {s}),
            !.byColorBB[color_of(pc)] = XorBB(@, {s}),
            !.pieceCount[pc] = @ - 1,
            !.pieceCount[make_piece(color_of(pc), ALL_PIECES)] = @ - 1]

move_piece(p, pc, from, to) ==
  LET fromTo == {from, to}
      b1 == [p.board EXCEPT ![from] = NO_PIECE]
  IN [p EXCEPT !.byTypeBB[ALL_PIECES] = XorBB(@, fromTo),
               !.byTypeBB[type_of(pc)] = IF type_of(pc) = ALL_PIECES THEN @ ELSE XorBB(@, fromTo),
               !.byColorBB[color_of(pc)] = XorBB(@, fromTo),
               !.board = [b1 EXCEPT ![to] = pc]]

\* attacks_from<Pt>(s) and attacks_from<PAWN>(s, c)
attacks_from(p, pt, s) == attacks_bb(pt, s, pieces(p))
attacks_from_PAWN(s, c) == PawnAttacks[c][s]

(***************************************************************************)
(* Attackers, blockers, check info, state from scratch                     *)
(***************************************************************************)
attackers_to(p, s, occupied) ==
       (attacks_from_PAWN(s, BLACK) \cap pieces_ct(p, WHITE, PAWN))
  \cup (attacks_from_PAWN(s, WHITE) \cap pieces_ct(p, BLACK, PAWN))
  \cup (PseudoAttacks[KNIGHT][s] \cap p.byTypeBB[KNIGHT])
  \cup (attacks_bb(ROOK, s, occupied) \cap (p.byTypeBB[ROOK] \cup p.byTypeBB[QUEEN]))
  \cup (attacks_bb(BISHOP, s, occupied) \cap (p.byTypeBB[BISHOP] \cup p.byTypeBB[QUEEN]))
  \cup (PseudoAttacks[KING][s] \cap p.byTypeBB[KING])

\* attackers_to(s) with the default occupancy
attackers(p, s) == attackers_to(p, s, pieces(p))

\* returns the blockers and, through the reference parameter, the pinners
slider_blockers(p, sliders, s) ==
  LET snipers == (  (PseudoAttacks[ROOK][s] \cap (p.byTypeBB[QUEEN] \cup p.byTypeBB[ROOK]))
                 \cup (PseudoAttacks[BISHOP][s] \cap (p.byTypeBB[QUEEN] \cup p.byTypeBB[BISHOP])))
                 \cap sliders
      occupancy == XorBB(pieces(p), snipers)
      one(sn) == Cardinality(between_bb(s, sn) \cap occupancy) = 1
  IN [blockers |-> UNION {between_bb(s, sn) \cap occupancy : sn \in {x \in snipers : one(x)}},
      pinners  |-> {sn \in snipers : one(sn)
                      /\ (between_bb(s, sn) \cap occupancy) \cap pieces_c(p, color_of(piece_on(p, s))) # {}}]

\* set_check_info(si) for the StateInfo at index i
set_check_info(p, i) ==
  LET w == slider_blockers(p, pieces_c(p, BLACK), square_KING(p, WHITE))
      b == slider_blockers(p, pieces_c(p, WHITE), square_KING(p, BLACK))
      ksq == square_KING(p, Not(p.sideToMove))
      bish == attacks_from(p, BISHOP, ksq)
      rook == attacks_from(p, ROOK, ksq)
  IN [p EXCEPT !.si[i].blockersForKing = [c \in Colors |-> IF c = WHITE THEN w.blockers ELSE b.blockers],
               !.si[i].pinners = [c \in Colors |-> IF c = BLACK THEN w.pinners ELSE b.pinners],
               !.si[i].checkSquares =
                  [pt \in PieceTypes |->
                     CASE pt = PAWN   -> attacks_from_PAWN(ksq, Not(p.sideToMove))
                       [] pt = KNIGHT -> PseudoAttacks[KNIGHT][ksq]
                       [] pt = BISHOP -> bish
                       [] pt = ROOK   -> rook
                       [] pt = QUEEN  -> bish \cup rook
                       [] OTHER       -> {}]]

\* the XOR of the keys f[x], x in the domain of f: a draw stays when it
\* occurs an odd number of times
XorFn(f) ==
  {a \in UNION {f[x] : x \in DOMAIN f} : Cardinality({x \in DOMAIN f : a \in f[x]}) % 2 = 1}

RECURSIVE SumFn(_, _)
SumFn(f, S) ==
  IF S = {} THEN 0
  ELSE LET x == CHOOSE y \in S : TRUE IN f[x] + SumFn(f, S \ {x})

\* the fields set_state(si) computes, for the StateInfo at index i
set_state(p, i) ==
  LET us == p.sideToMove
      psqKey == XorFn([s \in pieces(p) |-> Zobrist_psq(piece_on(p, s), s)])
      pawnKey == XorFn([s \in pieces(p) |->
                          IF type_of(piece_on(p, s)) = PAWN
                            THEN Zobrist_psq(piece_on(p, s), s) ELSE {}])
      npm == [c \in Colors |->
                SumFn([s \in Squares |->
                         IF color_of(piece_on(p, s)) = c /\ type_of(piece_on(p, s)) \notin {PAWN, KING}
                           THEN PieceValueMg(piece_on(p, s)) ELSE 0], pieces(p))]
      epKey == IF p.si[i].epSquare # SQ_NONE
                 THEN Zobrist_enpassant(file_of(p.si[i].epSquare)) ELSE {}
      sideKey == IF us = BLACK THEN Zobrist_side ELSE {}
      matKey == XorFn([n \in 1 .. Len(Pieces) |->
                         XorFn([cnt \in 0 .. (p.pieceCount[Pieces[n]] - 1) |->
                                  Zobrist_psq(Pieces[n], cnt)])])
      q == [p EXCEPT !.si[i].key = XorKey(XorKey(XorKey(psqKey, epKey), sideKey),
                                          Zobrist_castling(p.si[i].castlingRights)),
                     !.si[i].pawnKey = XorKey(Zobrist_noPawns, pawnKey),
                     !.si[i].materialKey = matKey,
                     !.si[i].nonPawnMaterial = npm,
                     !.si[i].checkersBB = attackers(p, square_KING(p, us)) \cap pieces_c(p, Not(us))]
  IN set_check_info(q, i)

(***************************************************************************)
(* Position::set(): a FEN string is the sequence of its characters         *)
(***************************************************************************)
\* const string PieceToChar(" PNBRQK  pnbrqk"), indexed from 0
PieceToChar == <<" ", "P", "N", "B", "R", "Q", "K", " ", " ", "p", "n", "b", "r", "q", "k">>
Digits == <<"0", "1", "2", "3", "4", "5", "6", "7", "8", "9">>
LowerAH == <<"a", "b", "c", "d", "e", "f", "g", "h">>
UpperAH == <<"A", "B", "C", "D", "E", "F", "G", "H">>
LowerChars == {"a", "b", "c", "d", "e", "f", "g", "h", "k", "n", "p", "q", "r", "w"}

\* the 0-based index of ch in the table, or -1 (string::npos)
IndexIn(tbl, ch) ==
  IF \E i \in 1 .. Len(tbl) : tbl[i] = ch
    THEN (CHOOSE i \in 1 .. Len(tbl) : tbl[i] = ch /\ \A j \in 1 .. (i - 1) : tbl[j] # ch) - 1
    ELSE -1
isdigit(ch) == IndexIn(Digits, ch) >= 0
isspace(ch) == ch = " "
islower(ch) == ch \in LowerChars
toupper(ch) ==
  CASE IndexIn(LowerAH, ch) >= 0 -> UpperAH[IndexIn(LowerAH, ch) + 1]
    [] ch = "k" -> "K"
    [] ch = "q" -> "Q"
    [] OTHER -> ch

\* set_castling_right(c, rfrom)
set_castling_right(p, c, rfrom) ==
  LET kfrom == square_KING(p, c)
      cr == RightsOf(c) \cap (IF kfrom < rfrom THEN KING_SIDE ELSE QUEEN_SIDE)
      r == CHOOSE x \in cr : TRUE
      kto == relative_square(c, IF cr \cap KING_SIDE # {} THEN SQ_G1 ELSE SQ_C1)
      rto == relative_square(c, IF cr \cap KING_SIDE # {} THEN SQ_F1 ELSE SQ_D1)
      m1 == [p.castlingRightsMask EXCEPT ![kfrom] = @ \cup cr]
  IN [p EXCEPT !.si[p.st].castlingRights = @ \cup cr,
               !.castlingRightsMask = [m1 EXCEPT ![rfrom] = @ \cup cr],
               !.castlingRookSquare[r] = rfrom,
               !.castlingPath[r] = (between_bb(rfrom, rto) \cup between_bb(kfrom, kto) \cup {rto, kto})
                                   \ {kfrom, rfrom}]

\* 1. Piece placement: the loop ends after reading a space or at the end;
\* a digit advances sq, '/' goes two ranks down, a piece letter is put on sq
\* (q is the position with the piece on it, made before the loop goes on)
RECURSIVE ParsePlacement(_, _, _, _)
ParsePlacement(p, fen, i, sq) ==
  CASE i > Len(fen) \/ isspace(fen[i]) -> [p |-> p, i |-> i + 1]
    [] i <= Len(fen) /\ isdigit(fen[i]) ->
         ParsePlacement(p, fen, i + 1, sq + IndexIn(Digits, fen[i]))
    [] i <= Len(fen) /\ fen[i] = "/" -> ParsePlacement(p, fen, i + 1, sq - 16)
    [] i <= Len(fen) /\ ~isspace(fen[i]) /\ IndexIn(PieceToChar, fen[i]) >= 0 ->
         CHOOSE r \in {ParsePlacement(q, fen, i + 1, sq + 1) :
                          q \in {put_piece(p, IndexIn(PieceToChar, fen[i]), sq)}} : TRUE
    [] OTHER -> ParsePlacement(p, fen, i + 1, sq)

\* for (rsq = ...; piece_on(rsq) != rook; rsq += step) {}
RECURSIVE ScanRook(_, _, _, _)
ScanRook(p, rook, rsq, step) ==
  IF rsq \notin Squares \/ piece_on(p, rsq) = rook THEN rsq
  ELSE ScanRook(p, rook, rsq + step, step)

\* 3. Castling availability
RECURSIVE ParseCastlingFrom(_, _, _)
ParseCastlingFrom(p, fen, i) ==
  IF i > Len(fen) \/ isspace(fen[i]) THEN [p |-> p, i |-> i + 1]
  ELSE
    LET c == IF islower(fen[i]) THEN BLACK ELSE WHITE
        rook == make_piece(c, ROOK)
        token == toupper(fen[i])
        rsq == CASE token = "K" -> ScanRook(p, rook, relative_square(c, SQ_H1), -1)
                 [] token = "Q" -> ScanRook(p, rook, relative_square(c, SQ_A1), 1)
                 [] IndexIn(UpperAH, token) >= 0 ->
                      make_square(IndexIn(UpperAH, token), relative_rank(c, 0))
                 [] OTHER -> SQ_NONE
    IN IF rsq = SQ_NONE THEN ParseCastlingFrom(p, fen, i + 1)
       ELSE ParseCastlingFrom(set_castling_right(p, c, rsq), fen, i + 1)
ParseCastling(a, fen) == ParseCastlingFrom(a.p, fen, a.i)

\* ss >> std::skipws >> int: [ok, val, i]
RECURSIVE SkipWs(_, _)
SkipWs(fen, i) == IF i <= Len(fen) /\ isspace(fen[i]) THEN SkipWs(fen, i + 1) ELSE i
RECURSIVE ReadDigits(_, _, _)
ReadDigits(fen, i, acc) ==
  IF i <= Len(fen) /\ isdigit(fen[i])
    THEN ReadDigits(fen, i + 1, 10 * acc + IndexIn(Digits, fen[i]))
    ELSE [val |-> acc, i |-> i]
ParseInt(fen, i0) ==
  LET i == SkipWs(fen, i0)
  IN IF i <= Len(fen) /\ isdigit(fen[i])
       THEN [ok |-> TRUE] @@ ReadDigits(fen, i, 0)
       ELSE [ok |-> FALSE, val |-> 0, i |-> i]

Max(a, b) == IF a > b THEN a ELSE b
Min(a, b) == IF a < b THEN a ELSE b

\* Position::set(fenStr, isChess960, si, th), field by field; each step maps
\* [p |-> the position so far, i |-> the index of the next character]

\* 2. Active color, then the separator
SetActiveColor(a, fen) ==
  [p |-> [a.p EXCEPT !.sideToMove = IF a.i <= Len(fen) /\ fen[a.i] = "w" THEN WHITE ELSE BLACK],
   i |-> a.i + 2]

\* 4. En passant square. Ignore if no pawn capture is possible
SetEnPassant(b, fen) ==
  LET stm == b.p.sideToMove
      colOk == b.i <= Len(fen) /\ IndexIn(LowerAH, fen[b.i]) >= 0
      rowOk == colOk /\ b.i + 1 <= Len(fen) /\ fen[b.i + 1] \in {"3", "6"}
      epsq == IF rowOk THEN make_square(IndexIn(LowerAH, fen[b.i]), IndexIn(Digits, fen[b.i + 1]) - 1)
              ELSE SQ_NONE
      epKept == rowOk
                /\ attackers(b.p, epsq) \cap pieces_ct(b.p, stm, PAWN) # {}
                /\ (epsq + pawn_push(Not(stm))) \in pieces_ct(b.p, Not(stm), PAWN)
  IN [p |-> [b.p EXCEPT !.si[1].epSquare = IF epKept THEN epsq ELSE SQ_NONE],
      i |-> IF rowOk THEN b.i + 2
            ELSE IF b.i <= Len(fen) THEN b.i + (IF colOk /\ b.i + 1 <= Len(fen) THEN 2 ELSE 1)
            ELSE b.i]

\* the largest int
INT_MAX == 2147483647
\* 2 * x has no value in an int (x is not negative here)
Times2Overflows(x) == x > INT_MAX \div 2
\* 2 * x in int arithmetic; where it has no value, the low 32 bits of the
\* product read as a signed number
Times2(x) == IF Times2Overflows(x) THEN ((x - (INT_MAX \div 2) - 1) * 2 - INT_MAX) - 1 ELSE 2 * x

\* 5-6. Halfmove clock and fullmove number
SetCounters(c, fen) ==
  LET r50 == ParseInt(fen, c.i)
      full == IF r50.ok THEN ParseInt(fen, r50.i) ELSE [ok |-> FALSE, val |-> 0, i |-> r50.i]
  IN [c.p EXCEPT !.si[1].rule50 = r50.val,
                 !.gamePly = Max(Times2(Max(full.val, (r50.val \div 2) + 1) - 1), 0)
                             + (IF c.p.sideToMove = BLACK THEN 1 ELSE 0)]

set(fen, isChess960) ==
  set_state(
    SetCounters(
      SetEnPassant(
        ParseCastling(
          SetActiveColor(ParsePlacement(ZeroPosition(isChess960), fen, 1, SQ_A8), fen),
          fen),
        fen),
      fen),
    1)

(***************************************************************************)
(* Position::fen(): the string as the sequence of its characters           *)
(***************************************************************************)
\* operator<<(int) for a number that is not negative
RECURSIVE ToDecimal(_)
ToDecimal(n) ==
  IF n < 10 THEN <<Digits[n + 1]>>
  ELSE Append(ToDecimal(n \div 10), Digits[(n % 10) + 1])

\* the division of C++, which truncates towards zero
CDiv(a, b) == IF a >= 0 THEN a \div b ELSE -((-a) \div b)

\* UCI::square(s)
UCI_square(s) == <<LowerAH[file_of(s) + 1], Digits[rank_of(s) + 2]>>

\* the rank r from the file f on, emptyCnt empty squares not yet written
RECURSIVE FenRank(_, _, _, _)
FenRank(p, r, f, emptyCnt) ==
  LET cnt == IF emptyCnt > 0 THEN <<Digits[emptyCnt + 1]>> ELSE <<>>
  IN IF f > 7 THEN cnt
     ELSE IF empty(p, make_square(f, r)) THEN FenRank(p, r, f + 1, emptyCnt + 1)
     ELSE cnt \o <<PieceToChar[piece_on(p, make_square(f, r)) + 1]>> \o FenRank(p, r, f + 1, 0)

\* the ranks from r down to the first, with '/' between them
RECURSIVE FenPlacement(_, _)
FenPlacement(p, r) ==
  FenRank(p, r, 0, 0) \o (IF r > 0 THEN <<"/">> \o FenPlacement(p, r - 1) ELSE <<>>)

\* the castling field: a letter for each right, the file of the rook in Chess960
FenCastling(p) ==
  LET cr == p.si[p.st].castlingRights
      ch(r, std, files) ==
        IF r \notin cr THEN <<>>
        ELSE IF p.chess960 THEN <<files[file_of(p.castlingRookSquare[r]) + 1]>>
        ELSE <<std>>
  IN ch(WHITE_OO, "K", UpperAH) \o ch(WHITE_OOO, "Q", UpperAH)
     \o ch(BLACK_OO, "k", LowerAH) \o ch(BLACK_OOO, "q", LowerAH)
     \o (IF cr = {} THEN <<"-">> ELSE <<>>)

\* fen as it would be if it wrote gamePly where the move number belongs
fen_PlyAsMoveNumber(p) ==
  LET ep == p.si[p.st].epSquare
  IN FenPlacement(p, 7)
     \o (IF p.sideToMove = WHITE THEN <<" ", "w", " ">> ELSE <<" ", "b", " ">>)
     \o FenCastling(p)
     \o (IF ep = SQ_NONE THEN <<" ", "-", " ">> ELSE <<" ">> \o UCI_square(ep) \o <<" ">>)
     \o ToDecimal(p.si[p.st].rule50)
     \o <<" ">>
     \o ToDecimal(p.gamePly)

\* Position::fen()
fen(p) ==
  LET ep == p.si[p.st].epSquare
  IN FenPlacement(p, 7)
     \o (IF p.sideToMove = WHITE THEN <<" ", "w", " ">> ELSE <<" ", "b", " ">>)
     \o FenCastling(p)
     \o (IF ep = SQ_NONE THEN <<" ", "-", " ">> ELSE <<" ">> \o UCI_square(ep) \o <<" ">>)
     \o ToDecimal(p.si[p.st].rule50)
     \o <<" ">>
     \o ToDecimal(1 + CDiv(p.gamePly - (IF p.sideToMove = BLACK THEN 1 ELSE 0), 2))

(***************************************************************************)
(* MoveList<LEGAL> (movegen.h): the legal moves by the rules of chess,     *)
(* computed on board[] alone                                               *)
(***************************************************************************)
RefOcc(b) == {s \in Squares : b[s] # NO_PIECE}
RefPieceAttacks(b, occ, t, s) ==
  LET pc == b[t]
      pt == type_of(pc)
  IN CASE pt = PAWN -> s \in PawnAttacks[color_of(pc)][t]
       [] pt \in {KNIGHT, KING} -> s \in PseudoAttacks[pt][t]
       [] OTHER -> s \in PseudoAttacks[pt][t] /\ BetweenBB[t][s] \cap occ = {}
RefAttacked(b, s, by) ==
  LET occ == RefOcc(b)
  IN \E t \in occ : color_of(b[t]) = by /\ RefPieceAttacks(b, occ, t, s)
RefKing(b, c) == CHOOSE s \in Squares : b[s] = make_piece(c, KING)
RefInCheck(b, c) == RefAttacked(b, RefKing(b, c), Not(c))

\* the board after the move
RefApply(b, us, m) ==
  LET from == from_sq(m)
      to == to_sq(m)
      T == type_of_move(m)
      kingSide == to > from
      kto == relative_square(us, IF kingSide THEN SQ_G1 ELSE SQ_C1)
      rto == relative_square(us, IF kingSide THEN SQ_F1 ELSE SQ_D1)
  IN CASE T = CASTLING ->
            [s \in Squares |->
               IF s = kto THEN make_piece(us, KING)
               ELSE IF s = rto THEN make_piece(us, ROOK)
               ELSE IF s \in {from, to} THEN NO_PIECE ELSE b[s]]
       [] T = ENPASSANT ->
            [s \in Squares |->
               IF s = to THEN b[from]
               ELSE IF s \in {from, to - pawn_push(us)} THEN NO_PIECE ELSE b[s]]
       [] T = PROMOTION ->
            [s \in Squares |->
               IF s = to THEN make_piece(us, promotion_type(m))
               ELSE IF s = from THEN NO_PIECE ELSE b[s]]
       [] OTHER ->
            [s \in Squares |-> IF s = to THEN b[from] ELSE IF s = from THEN NO_PIECE ELSE b[s]]

\* the moves the pieces can make, the own king's safety aside
RefPseudoMoves(p) ==
  LET b == p.board
      us == p.sideToMove
      occ == RefOcc(b)
      own == {s \in occ : color_of(b[s]) = us}
      enemy == occ \ own
      ep == p.si[p.st].epSquare
      up == pawn_push(us)
      last(to) == relative_rank(us, rank_of(to)) = 7
      pawnTo(from) ==
             {to \in {from + up} \cap Squares : b[to] = NO_PIECE}
        \cup {to \in {from + 2 * up} \cap Squares :
                relative_rank(us, rank_of(from)) = 1 /\ b[to] = NO_PIECE /\ b[from + up] = NO_PIECE}
        \cup (PawnAttacks[us][from] \cap enemy)
      pawnMoves(from) ==
             {make_move(from, to) : to \in {t \in pawnTo(from) : ~last(t)}}
        \cup {make(PROMOTION, from, to, pt) : to \in {t \in pawnTo(from) : last(t)}, pt \in KNIGHT .. QUEEN}
        \cup {make(ENPASSANT, from, to, KNIGHT) : to \in PawnAttacks[us][from] \cap {ep}}
      pieceMoves(from) ==
        {make_move(from, to) : to \in attacks_bb(type_of(b[from]), from, occ) \ own}
      castlings ==
        {make(CASTLING, RefKing(b, us), p.castlingRookSquare[r], KNIGHT) :
           r \in {x \in p.si[p.st].castlingRights \cap RightsOf(us) :
                    LET kfrom == RefKing(b, us)
                        kto == relative_square(us, IF x \in KING_SIDE THEN SQ_G1 ELSE SQ_C1)
                    IN /\ p.castlingPath[x] \cap occ = {}
                       /\ ~RefInCheck(b, us)
                       /\ \A s \in (between_bb(kfrom, kto) \cup {kto}) \ {kfrom} : ~RefAttacked(b, s, Not(us))}}
  IN UNION {IF type_of(b[from]) = PAWN THEN pawnMoves(from) ELSE pieceMoves(from) : from \in own}
     \cup castlings

LegalMoveList(p) ==
  {m \in RefPseudoMoves(p) : ~RefInCheck(RefApply(p.board, p.sideToMove, m), p.sideToMove)}

(***************************************************************************)
(* Legality and check                                                      *)
(***************************************************************************)
\* Position::legal(m), the en passant case: the king must not be attacked
\* once the two pawns have left their squares
legal_ENPASSANT(p, m) ==
  LET us == p.sideToMove
      ksq == square_KING(p, us)
      capsq == to_sq(m) - pawn_push(us)
      occupied == XorBB(XorBB(pieces(p), {from_sq(m)}), {capsq}) \cup {to_sq(m)}
  IN /\ attacks_bb(ROOK, ksq, occupied)
          \cap (pieces_ct(p, Not(us), QUEEN) \cup pieces_ct(p, Not(us), ROOK)) = {}
     /\ attacks_bb(BISHOP, ksq, occupied)
          \cap (pieces_ct(p, Not(us), QUEEN) \cup pieces_ct(p, Not(us), BISHOP)) = {}

\* Position::legal(m), the castling case
legal_CASTLING(p, m) ==
  LET us == p.sideToMove
      from == from_sq(m)
      kto == relative_square(us, IF to_sq(m) > from THEN SQ_G1 ELSE SQ_C1)
      path == IF kto = from THEN {} ELSE between_bb(kto, from) \cup {kto}
  IN /\ \A s \in path : attackers(p, s) \cap pieces_c(p, Not(us)) = {}
     /\ IF ~p.chess960 THEN TRUE
        ELSE attacks_bb(ROOK, kto, XorBB(pieces(p), {to_sq(m)}))
               \cap (pieces_ct(p, Not(us), ROOK) \cup pieces_ct(p, Not(us), QUEEN)) = {}

\* legal as it would be if it read the blockers of the other king
legal_OtherKingsBlockers(p, m) ==
  LET us == p.sideToMove
      from == from_sq(m)
      to == to_sq(m)
  IN IF type_of_move(m) = ENPASSANT THEN legal_ENPASSANT(p, m)
     ELSE IF type_of_move(m) = CASTLING THEN legal_CASTLING(p, m)
     ELSE IF type_of(piece_on(p, from)) = KING
       THEN attackers(p, to) \cap pieces_c(p, Not(us)) = {}
     ELSE IF from \notin p.si[p.st].blockersForKing[Not(us)] THEN TRUE
     ELSE aligned(from, to, square_KING(p, us))

\* Position::legal(m)
legal(p, m) ==
  LET us == p.sideToMove
      from == from_sq(m)
      to == to_sq(m)
  IN IF type_of_move(m) = ENPASSANT THEN legal_ENPASSANT(p, m)
     ELSE IF type_of_move(m) = CASTLING THEN legal_CASTLING(p, m)
     ELSE IF type_of(piece_on(p, from)) = KING
       THEN attackers(p, to) \cap pieces_c(p, Not(us)) = {}
     ELSE IF from \notin p.si[p.st].blockersForKing[us] THEN TRUE
     ELSE aligned(from, to, square_KING(p, us))

\* Position::pseudo_legal(m)
pseudo_legal(p, m) ==
  LET us == p.sideToMove
      from == from_sq(m)
      to == to_sq(m)
      pc == moved_piece(p, m)
      up == pawn_push(us)
  IN IF type_of_move(m) # NORMAL THEN m \in LegalMoveList(p)
     ELSE
       /\ pc # NO_PIECE /\ color_of(pc) = us
       /\ to \notin pieces_c(p, us)
       /\ IF type_of(pc) = PAWN
            THEN /\ rank_of(to) \notin {0, 7}
                 /\ \/ to \in attacks_from_PAWN(from, us) \cap pieces_c(p, Not(us))
                    \/ (from + up = to /\ empty(p, to))
                    \/ /\ from + 2 * up = to
                       /\ rank_of(from) = relative_rank(us, 1)
                       /\ empty(p, to)
                       /\ empty(p, to - up)
            ELSE to \in attacks_from(p, type_of(pc), from)
       /\ IF checkers(p) = {} THEN TRUE
          ELSE IF type_of(pc) # KING
            THEN /\ ~more_than_one(checkers(p))
                 /\ to \in between_bb(lsb(checkers(p)), square_KING(p, us)) \cup checkers(p)
            ELSE attackers_to(p, to, XorBB(pieces(p), {from})) \cap pieces_c(p, Not(us)) = {}

\* Position::gives_check(m): is there a direct check?
DirectCheck(p, m) ==
  to_sq(m) \in p.si[p.st].checkSquares[type_of(piece_on(p, from_sq(m)))]

\* the discovered check test as it would be if it read the blockers of the
\* mover's own king
DiscoveredCheck_OwnKing(p, m) ==
  /\ from_sq(m) \in p.si[p.st].blockersForKing[p.sideToMove]
  /\ ~aligned(from_sq(m), to_sq(m), square_KING(p, Not(p.sideToMove)))

\* Position::gives_check(m): is there a discovered check?
DiscoveredCheck(p, m) ==
  /\ from_sq(m) \in p.si[p.st].blockersForKing[Not(p.sideToMove)]
  /\ ~aligned(from_sq(m), to_sq(m), square_KING(p, Not(p.sideToMove)))

\* Position::gives_check(m): the switch on the type of the move
SpecialCheck(p, m) ==
  LET us == p.sideToMove
      from == from_sq(m)
      to == to_sq(m)
      ksq == square_KING(p, Not(us))
      T == type_of_move(m)
  IN IF T = NORMAL THEN FALSE
     ELSE IF T = PROMOTION
       THEN ksq \in attacks_bb(promotion_type(m), to, XorBB(pieces(p), {from}))
     ELSE IF T = ENPASSANT
       THEN LET capsq == make_square(file_of(to), rank_of(from))
                b == XorBB(XorBB(pieces(p), {from}), {capsq}) \cup {to}
            IN (attacks_bb(ROOK, ksq, b) \cap (pieces_ct(p, us, QUEEN) \cup pieces_ct(p, us, ROOK)))
               \cup (attacks_bb(BISHOP, ksq, b) \cap (pieces_ct(p, us, QUEEN) \cup pieces_ct(p, us, BISHOP)))
               # {}
     ELSE LET kto == relative_square(us, IF to > from THEN SQ_G1 ELSE SQ_C1)
              rto == relative_square(us, IF to > from THEN SQ_F1 ELSE SQ_D1)
          IN /\ ksq \in PseudoAttacks[ROOK][rto]
             /\ ksq \in attacks_bb(ROOK, rto, XorBB(XorBB(pieces(p), {from}), {to}) \cup {rto, kto})

\* Position::gives_check(m)
gives_check(p, m) ==
  IF DirectCheck(p, m) THEN TRUE
  ELSE IF DiscoveredCheck(p, m) THEN TRUE
  ELSE SpecialCheck(p, m)

(***************************************************************************)
(* Move mechanics                                                          *)
(***************************************************************************)
\* the bitwise XOR of two naturals
RECURSIVE BitXor(_, _)
BitXor(a, b) ==
  IF a = 0 THEN b ELSE IF b = 0 THEN a
  ELSE 2 * BitXor(a \div 2, b \div 2) + (IF a % 2 = b % 2 THEN 0 ELSE 1)

\* do_castling as it would be if it placed the pieces before it removed them
do_castling_PlaceFirst(Do, p, us, from, to0) ==
  LET kingSide == to0 > from
      rfrom == to0
      rto == relative_square(us, IF kingSide THEN SQ_F1 ELSE SQ_D1)
      to == relative_square(us, IF kingSide THEN SQ_G1 ELSE SQ_C1)
      p1 == put_piece(p, make_piece(us, KING), IF Do THEN to ELSE from)
      p2 == put_piece(p1, make_piece(us, ROOK), IF Do THEN rto ELSE rfrom)
      p3 == remove_piece(p2, make_piece(us, KING), IF Do THEN from ELSE to)
      p4 == remove_piece(p3, make_piece(us, ROOK), IF Do THEN rfrom ELSE rto)
      b5 == [p4.board EXCEPT ![IF Do THEN rfrom ELSE rto] = NO_PIECE]
      p5 == [p4 EXCEPT !.board = [b5 EXCEPT ![IF Do THEN from ELSE to] = NO_PIECE]]
  IN [p |-> p5, to |-> to, rfrom |-> rfrom, rto |-> rto]

\* do_castling<Do>(us, from, to, rfrom, rto): the position and the three
\* squares it returns through its reference parameters
do_castling(Do, p, us, from, to0) ==
  LET kingSide == to0 > from
      rfrom == to0
      rto == relative_square(us, IF kingSide THEN SQ_F1 ELSE SQ_D1)
      to == relative_square(us, IF kingSide THEN SQ_G1 ELSE SQ_C1)
      p1 == remove_piece(p, make_piece(us, KING), IF Do THEN from ELSE to)
      p2 == remove_piece(p1, make_piece(us, ROOK), IF Do THEN rfrom ELSE rto)
      b3 == [p2.board EXCEPT ![IF Do THEN rfrom ELSE rto] = NO_PIECE]
      p3 == [p2 EXCEPT !.board = [b3 EXCEPT ![IF Do THEN from ELSE to] = NO_PIECE]]
      p4 == put_piece(p3, make_piece(us, KING), IF Do THEN to ELSE from)
      p5 == put_piece(p4, make_piece(us, ROOK), IF Do THEN rto ELSE rfrom)
  IN [p |-> p5, to |-> to, rfrom |-> rfrom, rto |-> rto]

\* the scan as it would be if the loop ran while i < end
RECURSIVE RepetitionScan_StopsBeforeEnd(_, _, _)
RepetitionScan_StopsBeforeEnd(sis, i, end) ==
  LET n == Len(sis)
  IN IF i >= end \/ n - i < 1 THEN 0
     ELSE IF sis[n - i].key = sis[n].key
       THEN (IF sis[n - i].repetition # 0 THEN -i ELSE i)
     ELSE RepetitionScan_StopsBeforeEnd(sis, i + 2, end)

\* the scan as it would be if it never marked a three-fold
RECURSIVE RepetitionScan_Unsigned(_, _, _)
RepetitionScan_Unsigned(sis, i, end) ==
  LET n == Len(sis)
  IN IF i > end \/ n - i < 1 THEN 0
     ELSE IF sis[n - i].key = sis[n].key THEN i
     ELSE RepetitionScan_Unsigned(sis, i + 2, end)

\* the repetition scan of do_move over the chain sis, whose last element is st
RECURSIVE RepetitionScan(_, _, _)
RepetitionScan(sis, i, end) ==
  LET n == Len(sis)
  IN IF i > end \/ n - i < 1 THEN 0
     ELSE IF sis[n - i].key = sis[n].key
       THEN (IF sis[n - i].repetition # 0 THEN -i ELSE i)
     ELSE RepetitionScan(sis, i + 2, end)

\* Position::do_move(m, newSt, givesCheck), in the order of its statements.
\* Each step maps a context c: the position c.p, the running key c.k and the
\* locals to and captured; i is the index of newSt.

\* do_move as it would be if pliesFromNull went on from the half-move clock
DoMoveBegin_PliesFromClock(p, m) ==
  LET cur == p.si[p.st]
      n0 == [ZeroStateInfo EXCEPT !.pawnKey = cur.pawnKey, !.materialKey = cur.materialKey,
                                  !.nonPawnMaterial = cur.nonPawnMaterial,
                                  !.castlingRights = cur.castlingRights,
                                  !.rule50 = cur.rule50 + 1,
                                  !.pliesFromNull = cur.rule50 + 1,
                                  !.epSquare = cur.epSquare]
  IN [p |-> [p EXCEPT !.si = Append(p.si, n0), !.st = p.st + 1, !.gamePly = p.gamePly + 1],
      k |-> XorKey(cur.key, Zobrist_side),
      m |-> m, i |-> p.st + 1, us |-> p.sideToMove, them |-> Not(p.sideToMove),
      from |-> from_sq(m), to |-> to_sq(m), T |-> type_of_move(m),
      pc |-> piece_on(p, from_sq(m)),
      captured |-> IF type_of_move(m) = ENPASSANT THEN make_piece(Not(p.sideToMove), PAWN)
                   ELSE piece_on(p, to_sq(m))]

\* copy the head of the state, link it, bump the counters (lines 666-689)
DoMoveBegin(p, m) ==
  LET cur == p.si[p.st]
      n0 == [ZeroStateInfo EXCEPT !.pawnKey = cur.pawnKey, !.materialKey = cur.materialKey,
                                  !.nonPawnMaterial = cur.nonPawnMaterial,
                                  !.castlingRights = cur.castlingRights,
                                  !.rule50 = cur.rule50 + 1,
                                  !.pliesFromNull = cur.pliesFromNull + 1,
                                  !.epSquare = cur.epSquare]
  IN [p |-> [p EXCEPT !.si = Append(p.si, n0), !.st = p.st + 1, !.gamePly = p.gamePly + 1],
      k |-> XorKey(cur.key, Zobrist_side),
      m |-> m, i |-> p.st + 1, us |-> p.sideToMove, them |-> Not(p.sideToMove),
      from |-> from_sq(m), to |-> to_sq(m), T |-> type_of_move(m),
      pc |-> piece_on(p, from_sq(m)),
      captured |-> IF type_of_move(m) = ENPASSANT THEN make_piece(Not(p.sideToMove), PAWN)
                   ELSE piece_on(p, to_sq(m))]

\* castling as it would be if captured kept the rook found on 'to'
DoMoveCastling_RookCaptured(c) ==
  IF c.T # CASTLING THEN c
  ELSE LET cs == do_castling(TRUE, c.p, c.us, c.from, c.to)
       IN [c EXCEPT !.p = cs.p, !.to = cs.to,
                    !.k = XorKey(@, XorKey(Zobrist_psq(c.captured, cs.rfrom),
                                           Zobrist_psq(c.captured, cs.rto)))]

\* castling (lines 692-702)
DoMoveCastling(c) ==
  IF c.T # CASTLING THEN c
  ELSE LET cs == do_castling(TRUE, c.p, c.us, c.from, c.to)
       IN [c EXCEPT !.p = cs.p, !.to = cs.to,
                    !.k = XorKey(@, XorKey(Zobrist_psq(c.captured, cs.rfrom),
                                           Zobrist_psq(c.captured, cs.rto))),
                    !.captured = NO_PIECE]

\* the capture as it would be if the en passant case left board[capsq] alone
DoMoveCapture_BoardKept(c) ==
  IF c.captured = NO_PIECE THEN c
  ELSE LET i == c.i
           capsq == IF type_of(c.captured) = PAWN /\ c.T = ENPASSANT
                      THEN c.to - pawn_push(c.us) ELSE c.to
           p1 == IF type_of(c.captured) = PAWN
                   THEN [c.p EXCEPT !.si[i].pawnKey = XorKey(@, Zobrist_psq(c.captured, capsq))]
                   ELSE [c.p EXCEPT !.si[i].nonPawnMaterial[c.them] = @ - PieceValueMg(c.captured)]
           p2 == remove_piece(p1, c.captured, capsq)
       IN [c EXCEPT !.p = [p2 EXCEPT !.si[i].materialKey =
                                        XorKey(@, Zobrist_psq(c.captured, p2.pieceCount[c.captured])),
                                     !.si[i].rule50 = 0],
                    !.k = XorKey(@, Zobrist_psq(c.captured, capsq))]

\* capture (lines 704-741)
DoMoveCapture(c) ==
  IF c.captured = NO_PIECE THEN c
  ELSE LET i == c.i
           capsq == IF type_of(c.captured) = PAWN /\ c.T = ENPASSANT
                      THEN c.to - pawn_push(c.us) ELSE c.to
           p1 == IF type_of(c.captured) = PAWN
                   THEN [c.p EXCEPT !.board = IF c.T = ENPASSANT
                                                THEN [@ EXCEPT ![capsq] = NO_PIECE] ELSE @,
                                    !.si[i].pawnKey = XorKey(@, Zobrist_psq(c.captured, capsq))]
                   ELSE [c.p EXCEPT !.si[i].nonPawnMaterial[c.them] = @ - PieceValueMg(c.captured)]
           p2 == remove_piece(p1, c.captured, capsq)
       IN [c EXCEPT !.p = [p2 EXCEPT !.si[i].materialKey =
                                        XorKey(@, Zobrist_psq(c.captured, p2.pieceCount[c.captured])),
                                     !.si[i].rule50 = 0],
                    !.k = XorKey(@, Zobrist_psq(c.captured, capsq))]

\* the en passant reset as it would be if it forgot the key
DoMoveEpReset_KeyKept(c) ==
  LET i == c.i
      k1 == XorKey(c.k, XorKey(Zobrist_psq(c.pc, c.from), Zobrist_psq(c.pc, c.to)))
  IN IF c.p.si[i].epSquare # SQ_NONE
       THEN [c EXCEPT !.k = k1, !.p.si[i].epSquare = SQ_NONE]
       ELSE [c EXCEPT !.k = k1]

\* key of the moved piece, en passant reset (lines 743-751)
DoMoveEpReset(c) ==
  LET i == c.i
      k1 == XorKey(c.k, XorKey(Zobrist_psq(c.pc, c.from), Zobrist_psq(c.pc, c.to)))
  IN IF c.p.si[i].epSquare # SQ_NONE
       THEN [c EXCEPT !.k = XorKey(k1, Zobrist_enpassant(file_of(c.p.si[i].epSquare))),
                      !.p.si[i].epSquare = SQ_NONE]
       ELSE [c EXCEPT !.k = k1]

\* the update as it would be if only the origin square counted
DoMoveRights_FromOnly(c) ==
  LET i == c.i
      cr == c.p.castlingRightsMask[c.from]
      c1 == IF c.p.si[i].castlingRights # {} /\ cr # {}
              THEN [c EXCEPT !.k = XorKey(@, Zobrist_castling(c.p.si[i].castlingRights \cap cr)),
                             !.p.si[i].castlingRights = @ \ cr]
              ELSE c
  IN IF c.T # CASTLING
       THEN [c1 EXCEPT !.p = move_piece(@, c.pc, c.from, c.to)]
       ELSE c1

\* the update as it would be if the key took castling[cr], not
\* castling[st->castlingRights & cr]
DoMoveRights_KeyOfMask(c) ==
  LET i == c.i
      cr == c.p.castlingRightsMask[c.from] \cup c.p.castlingRightsMask[c.to]
      c1 == IF c.p.si[i].castlingRights # {} /\ cr # {}
              THEN [c EXCEPT !.k = XorKey(@, Zobrist_castling(cr)),
                             !.p.si[i].castlingRights = @ \ cr]
              ELSE c
  IN IF c.T # CASTLING
       THEN [c1 EXCEPT !.p = move_piece(@, c.pc, c.from, c.to)]
       ELSE c1

\* castling rights, then the piece moves (lines 753-763)
DoMoveRights(c) ==
  LET i == c.i
      cr == c.p.castlingRightsMask[c.from] \cup c.p.castlingRightsMask[c.to]
      c1 == IF c.p.si[i].castlingRights # {} /\ cr # {}
              THEN [c EXCEPT !.k = XorKey(@, Zobrist_castling(c.p.si[i].castlingRights \cap cr)),
                             !.p.si[i].castlingRights = @ \ cr]
              ELSE c
  IN IF c.T # CASTLING
       THEN [c1 EXCEPT !.p = move_piece(@, c.pc, c.from, c.to)]
       ELSE c1

\* promotion (lines 776-796)
DoMovePromotion(c) ==
  LET i == c.i
      promotion == make_piece(c.us, promotion_type(c.m))
      p1 == put_piece(remove_piece(c.p, c.pc, c.to), promotion, c.to)
  IN [c EXCEPT !.p = [p1 EXCEPT !.si[i].pawnKey = XorKey(@, Zobrist_psq(c.pc, c.to)),
                                !.si[i].materialKey =
                                   XorKey(@, XorKey(Zobrist_psq(promotion, p1.pieceCount[promotion] - 1),
                                                    Zobrist_psq(c.pc, p1.pieceCount[c.pc]))),
                                !.si[i].nonPawnMaterial[c.us] = @ + PieceValueMg(promotion)],
               !.k = XorKey(@, XorKey(Zobrist_psq(c.pc, c.to), Zobrist_psq(promotion, c.to)))]

\* the test as it would be if it looked for pawns of the side that moved
SetsEpSquare_OwnPawns(c) ==
  /\ BitXor(c.to, c.from) = 16
  /\ attacks_from_PAWN(c.to - pawn_push(c.us), c.us) \cap pieces_ct(c.p, c.us, PAWN) # {}

\* the test as it would be if every double push set the en passant square
SetsEpSquare_EveryDoublePush(c) == BitXor(c.to, c.from) = 16

\* whether the pawn move sets the en passant square (lines 769-770)
SetsEpSquare(c) ==
  /\ BitXor(c.to, c.from) = 16
  /\ attacks_from_PAWN(c.to - pawn_push(c.us), c.us) \cap pieces_ct(c.p, c.them, PAWN) # {}

\* pawn moves (lines 765-803)
DoMovePawn(c) ==
  IF type_of(c.pc) # PAWN THEN c
  ELSE LET i == c.i
           c1 == IF SetsEpSquare(c)
                   THEN [c EXCEPT !.p.si[i].epSquare = c.to - pawn_push(c.us),
                                  !.k = XorKey(@, Zobrist_enpassant(file_of(c.to - pawn_push(c.us))))]
                 ELSE IF c.T = PROMOTION THEN DoMovePromotion(c)
                 ELSE c
       IN [c1 EXCEPT !.p.si[i].pawnKey =
                        XorKey(@, XorKey(Zobrist_psq(c.pc, c.from), Zobrist_psq(c.pc, c.to))),
                     !.p.si[i].rule50 = 0]

\* captured piece, key, checkers, side to move, check info (lines 805-817)
DoMoveCommit(c, givesCheck) ==
  LET i == c.i
      p1 == [c.p EXCEPT !.si[i].capturedPiece = c.captured,
                        !.si[i].key = c.k,
                        !.si[i].checkersBB =
                           IF givesCheck
                             THEN attackers(c.p, square_KING(c.p, c.them)) \cap pieces_c(c.p, c.us)
                             ELSE {},
                        !.sideToMove = Not(c.p.sideToMove)]
  IN set_check_info(p1, i)

\* repetition (lines 819-839)
DoMoveRepetition(p) ==
  LET i == p.st
      end == Min(p.si[i].rule50, p.si[i].pliesFromNull)
  IN [p EXCEPT !.si[i].repetition = IF end >= 4 THEN RepetitionScan(p.si, 4, end) ELSE 0]

do_move(p, m, givesCheck) ==
  DoMoveRepetition(
    DoMoveCommit(
      DoMovePawn(DoMoveRights(DoMoveEpReset(DoMoveCapture(DoMoveCastling(DoMoveBegin(p, m)))))),
      givesCheck))

\* undo_move as it would be if the en passant case did not move capsq back
\* by one pawn push
undo_move_CapsqIsTo(p, m) ==
  LET us == Not(p.sideToMove)
      q0 == [p EXCEPT !.sideToMove = us]
      from == from_sq(m)
      to == to_sq(m)
      T == type_of_move(m)
      pc0 == piece_on(p, to)
      pc == IF T = PROMOTION THEN make_piece(us, PAWN) ELSE pc0
      q1 == IF T = PROMOTION THEN put_piece(remove_piece(q0, pc0, to), pc, to) ELSE q0
      capt == p.si[p.st].capturedPiece
      q2a == move_piece(q1, pc, to, from)
      q2 == IF T = CASTLING THEN do_castling(FALSE, q1, us, from, to).p
            ELSE IF capt # NO_PIECE THEN put_piece(q2a, capt, to)
            ELSE q2a
  IN [q2 EXCEPT !.st = p.st - 1, !.si = SubSeq(p.si, 1, p.st - 1), !.gamePly = p.gamePly - 1]

\* Position::undo_move(m)
undo_move(p, m) ==
  LET us == Not(p.sideToMove)
      q0 == [p EXCEPT !.sideToMove = us]
      from == from_sq(m)
      to == to_sq(m)
      T == type_of_move(m)
      pc0 == piece_on(p, to)
      pc == IF T = PROMOTION THEN make_piece(us, PAWN) ELSE pc0
      q1 == IF T = PROMOTION THEN put_piece(remove_piece(q0, pc0, to), pc, to) ELSE q0
      capt == p.si[p.st].capturedPiece
      capsq == IF T = ENPASSANT THEN to - pawn_push(us) ELSE to
      q2a == move_piece(q1, pc, to, from)
      q2 == IF T = CASTLING THEN do_castling(FALSE, q1, us, from, to).p
            ELSE IF capt # NO_PIECE THEN put_piece(q2a, capt, capsq)
            ELSE q2a
  IN [q2 EXCEPT !.st = p.st - 1, !.si = SubSeq(p.si, 1, p.st - 1), !.gamePly = p.gamePly - 1]

\* do_null_move as it would be if it left the en passant file in the key
do_null_move_EpKeyKept(p) ==
  LET cur == p.si[p.st]
      i == p.st + 1
      n == [cur EXCEPT !.key = XorKey(cur.key, Zobrist_side),
                       !.epSquare = SQ_NONE,
                       !.rule50 = cur.rule50 + 1,
                       !.pliesFromNull = 0]
      q == [p EXCEPT !.si = Append(p.si, n), !.st = i, !.sideToMove = Not(p.sideToMove)]
  IN [set_check_info(q, i) EXCEPT !.si[i].repetition = 0]

\* Position::do_null_move(newSt)
do_null_move(p) ==
  LET cur == p.si[p.st]
      i == p.st + 1
      hadEp == cur.epSquare # SQ_NONE
      k1 == IF hadEp THEN XorKey(cur.key, Zobrist_enpassant(file_of(cur.epSquare))) ELSE cur.key
      n == [cur EXCEPT !.key = XorKey(k1, Zobrist_side),
                       !.epSquare = SQ_NONE,
                       !.rule50 = cur.rule50 + 1,
                       !.pliesFromNull = 0]
      q == [p EXCEPT !.si = Append(p.si, n), !.st = i, !.sideToMove = Not(p.sideToMove)]
  IN [set_check_info(q, i) EXCEPT !.si[i].repetition = 0]

\* Position::undo_null_move()
undo_null_move(p) ==
  [p EXCEPT !.st = p.st - 1, !.si = SubSeq(p.si, 1, p.st - 1), !.sideToMove = Not(p.sideToMove)]

\* key_after as it would be if it forgot the captured piece
key_after_CaptureKept(p, m) ==
  LET from == from_sq(m)
      to == to_sq(m)
      pc == piece_on(p, from)
      k == XorKey(p.si[p.st].key, Zobrist_side)
  IN XorKey(k, XorKey(Zobrist_psq(pc, to), Zobrist_psq(pc, from)))

\* Position::key_after(m)
key_after(p, m) ==
  LET from == from_sq(m)
      to == to_sq(m)
      pc == piece_on(p, from)
      captured == piece_on(p, to)
      k == XorKey(p.si[p.st].key, Zobrist_side)
      k1 == IF captured # NO_PIECE THEN XorKey(k, Zobrist_psq(captured, to)) ELSE k
  IN XorKey(k1, XorKey(Zobrist_psq(pc, to), Zobrist_psq(pc, from)))

\* is_draw as it would be if it compared the distance without its sign
is_draw_Unsigned(p, ply) == p.si[p.st].repetition # 0 /\ Abs(p.si[p.st].repetition) < ply

\* Position::is_draw(ply)
is_draw(p, ply) == p.si[p.st].repetition # 0 /\ p.si[p.st].repetition < ply

(***************************************************************************)
(* Static exchange evaluation                                              *)
(***************************************************************************)
\* the attackers (att) of stm that may capture: the pinned ones are left out as
\* long as a pinner is still on the board
SeeStmAttackers(p, stm, att, occupied) ==
  IF p.si[p.st].pinners[Not(stm)] \cap occupied # {}
    THEN (att \cap pieces_c(p, stm)) \ p.si[p.st].blockersForKing[stm]
    ELSE att \cap pieces_c(p, stm)

\* the type of the least valuable attacker, KING when only the king is left
SeeLeastAttacker(p, stmAttackers) ==
  IF \E pt \in PAWN .. QUEEN : stmAttackers \cap p.byTypeBB[pt] # {}
    THEN CHOOSE pt \in PAWN .. QUEEN :
           /\ stmAttackers \cap p.byTypeBB[pt] # {}
           /\ \A lower \in PAWN .. (pt - 1) : stmAttackers \cap p.byTypeBB[lower] = {}
    ELSE KING

\* the X-ray attackers that appear behind a removed piece of type Pt
SeeXray(p, to, Pt, occupied) ==
       (IF Pt \in {PAWN, BISHOP, QUEEN}
          THEN attacks_bb(BISHOP, to, occupied) \cap (p.byTypeBB[BISHOP] \cup p.byTypeBB[QUEEN])
          ELSE {})
  \cup (IF Pt \in {ROOK, QUEEN}
          THEN attacks_bb(ROOK, to, occupied) \cap (p.byTypeBB[ROOK] \cup p.byTypeBB[QUEEN])
          ELSE {})

\* the capture and recapture loop of see_ge from the switch of the side on;
\* stm is the side after the switch
\* the loop as it would be without attackers &= occupied
SeeAttackers_NotMasked(att0, occupied) == att0

\* attackers &= occupied (line 1043)
SeeAttackers(att0, occupied) == att0 \cap occupied

RECURSIVE SeeLoop(_, _, _, _, _, _, _)
SeeLoop(p, to, stm, balance, occupied, att0, result) ==
  LET att == SeeAttackers(att0, occupied)
      stmAttackers == SeeStmAttackers(p, stm, att, occupied)
      Pt == SeeLeastAttacker(p, stmAttackers)
      newBalance == (0 - balance) - PieceValueMg(Pt) - 1
      newOccupied == XorBB(occupied, {lsb(stmAttackers \cap p.byTypeBB[Pt])})
  IN IF stmAttackers = {} THEN result
     ELSE IF Pt = KING
       THEN (IF att \cap pieces_c(p, Not(stm)) # {} THEN result ELSE 1 - result)
     ELSE IF newBalance >= 0 THEN 1 - result
     ELSE SeeLoop(p, to, Not(stm), newBalance, newOccupied,
                  att \cup SeeXray(p, to, Pt, newOccupied), 1 - result)

\* see_ge as it would be if the test for special moves were reversed
see_ge_SpecialReversed(p, m, threshold) ==
  LET from == from_sq(m)
      to == to_sq(m)
      balance == PieceValueMg(piece_on(p, to)) - threshold
      occupied == XorBB(XorBB(pieces(p), {from}), {to})
  IN IF type_of_move(m) # NORMAL THEN threshold >= 0
     ELSE IF balance < 0 THEN FALSE
     ELSE IF balance - PieceValueMg(piece_on(p, from)) >= 0 THEN TRUE
     ELSE SeeLoop(p, to, Not(color_of(piece_on(p, from))),
                  balance - PieceValueMg(piece_on(p, from)),
                  occupied, attackers_to(p, to, occupied), 1) = 1

\* see_ge as it would be if the early exit needed a positive balance
see_ge_PositiveBalance(p, m, threshold) ==
  LET from == from_sq(m)
      to == to_sq(m)
      balance == PieceValueMg(piece_on(p, to)) - threshold
      occupied == XorBB(XorBB(pieces(p), {from}), {to})
  IN IF type_of_move(m) # NORMAL THEN 0 >= threshold
     ELSE IF balance < 0 THEN FALSE
     ELSE IF balance - PieceValueMg(piece_on(p, from)) > 0 THEN TRUE
     ELSE SeeLoop(p, to, Not(color_of(piece_on(p, from))),
                  balance - PieceValueMg(piece_on(p, from)),
                  occupied, attackers_to(p, to, occupied), 1) = 1

\* Position::see_ge(m, threshold)
see_ge(p, m, threshold) ==
  LET from == from_sq(m)
      to == to_sq(m)
      balance == PieceValueMg(piece_on(p, to)) - threshold
      occupied == XorBB(XorBB(pieces(p), {from}), {to})
  IN IF type_of_move(m) # NORMAL THEN 0 >= threshold
     ELSE IF balance < 0 THEN FALSE
     ELSE IF balance - PieceValueMg(piece_on(p, from)) >= 0 THEN TRUE
     ELSE SeeLoop(p, to, Not(color_of(piece_on(p, from))),
                  balance - PieceValueMg(piece_on(p, from)),
                  occupied, attackers_to(p, to, occupied), 1) = 1

\* the loop of see_ge iteration by iteration
MaxSeeIterations == 40

\* one record for each iteration of the loop from the n-th on: whether it
\* left the loop, the attacker it took and occupied before and after it;
\* the record of an iteration beyond MaxSeeIterations stands for a loop
\* that goes on
RECURSIVE SeeTrace(_, _, _, _, _, _, _)
SeeTrace(p, to, stm, balance, occupied, att0, n) ==
  LET att == SeeAttackers(att0, occupied)
      stmAttackers == SeeStmAttackers(p, stm, att, occupied)
      Pt == SeeLeastAttacker(p, stmAttackers)
      newBalance == (0 - balance) - PieceValueMg(Pt) - 1
      used == lsb(stmAttackers \cap p.byTypeBB[Pt])
      newOccupied == XorBB(occupied, {used})
  IN IF n > MaxSeeIterations
       THEN <<[exit |-> FALSE, used |-> SQ_NONE, before |-> occupied, after |-> occupied]>>
     ELSE IF stmAttackers = {} \/ Pt = KING \/ newBalance >= 0
       THEN <<[exit |-> TRUE, used |-> SQ_NONE, before |-> occupied, after |-> occupied]>>
     ELSE <<[exit |-> FALSE, used |-> used, before |-> occupied, after |-> newOccupied]>>
          \o SeeTrace(p, to, Not(stm), newBalance, newOccupied,
                      att \cup SeeXray(p, to, Pt, newOccupied), n + 1)

\* the iterations of see_ge(m, threshold); none when it returns before the loop
see_ge_trace(p, m, threshold) ==
  LET from == from_sq(m)
      to == to_sq(m)
      balance == PieceValueMg(piece_on(p, to)) - threshold
      occupied == XorBB(XorBB(pieces(p), {from}), {to})
  IN IF type_of_move(m) # NORMAL THEN <<>>
     ELSE IF balance < 0 THEN <<>>
     ELSE IF balance - PieceValueMg(piece_on(p, from)) >= 0 THEN <<>>
     ELSE SeeTrace(p, to, Not(color_of(piece_on(p, from))),
                   balance - PieceValueMg(piece_on(p, from)),
                   occupied, attackers_to(p, to, occupied), 1)

(***************************************************************************)
(* Transposition table (tt.cpp)                                            *)
(***************************************************************************)
ClusterSize == 3
ClusterCount == 2
MOVE_NONE == 0
BOUND_UPPER == 1
BOUND_LOWER == 2
BOUND_EXACT == 3

\* bitwise AND and OR of two naturals
RECURSIVE BitAnd(_, _)
BitAnd(a, b) ==
  IF a = 0 \/ b = 0 THEN 0
  ELSE 2 * BitAnd(a \div 2, b \div 2) + (IF a % 2 = 1 /\ b % 2 = 1 THEN 1 ELSE 0)
RECURSIVE BitOr(_, _)
BitOr(a, b) ==
  IF a = 0 THEN b ELSE IF b = 0 THEN a
  ELSE 2 * BitOr(a \div 2, b \div 2) + (IF a % 2 = 1 \/ b % 2 = 1 THEN 1 ELSE 0)

\* the conversions to the widths of the fields of a TTEntry
ToUint8(x) == x % 256
ToUint16(x) == x % 65536
ToInt8(x) == IF x % 256 >= 128 THEN (x % 256) - 256 ELSE x % 256
ToInt16(x) == IF x % 65536 >= 32768 THEN (x % 65536) - 65536 ELSE x % 65536

\* a 64-bit key is the tuple of its four 16-bit words, the highest first
key16_of(k) == k[1]

\* first_entry(key): the cluster at (uint32_t(key) * uint64_t(clusterCount)) >> 32
first_entry(k) == ((k[3] * ClusterCount) + ((k[4] * ClusterCount) \div 65536)) \div 65536

ZeroEntry ==
  [key16 |-> 0, move16 |-> 0, value16 |-> 0, eval16 |-> 0, depth8 |-> 0, genBound8 |-> 0]

\* the table after clear(): every byte zero
ZeroTable == [c \in 0 .. (ClusterCount - 1) |-> [i \in 0 .. (ClusterSize - 1) |-> ZeroEntry]]

\* the replace value as it would be with 256 in the place of 263
ReplaceValue_Magic256(e, gen) == e.depth8 - BitAnd(256 + gen - e.genBound8, 248)

\* the replace value of an entry: its depth minus 8 times its relative age
ReplaceValue(e, gen) == e.depth8 - BitAnd(263 + gen - e.genBound8, 248)

\* the replacement loop of probe as it would be if it compared with >=
RECURSIVE ReplaceScan_LastOfTies(_, _, _, _)
ReplaceScan_LastOfTies(cl, gen, replace, i) ==
  IF i >= ClusterSize THEN replace
  ELSE IF ReplaceValue(cl[replace], gen) >= ReplaceValue(cl[i], gen)
    THEN ReplaceScan_LastOfTies(cl, gen, i, i + 1)
  ELSE ReplaceScan_LastOfTies(cl, gen, replace, i + 1)

\* the replacement loop of probe, from entry i on, replace being the choice so far
RECURSIVE ReplaceScan(_, _, _, _)
ReplaceScan(cl, gen, replace, i) ==
  IF i >= ClusterSize THEN replace
  ELSE IF ReplaceValue(cl[replace], gen) > ReplaceValue(cl[i], gen)
    THEN ReplaceScan(cl, gen, i, i + 1)
  ELSE ReplaceScan(cl, gen, replace, i + 1)

\* the refresh of probe as it would be if it kept the generation only
Refresh_GenerationOnly(gen, genBound8) == ToUint8(gen)

\* genBound8 after the refresh of probe
Refresh(gen, genBound8) == ToUint8(BitOr(gen, BitAnd(genBound8, 7)))

\* probe as it would be if it refreshed the replacement victim too
probe_VictimRefreshed(tbl, gen, k) ==
  LET c == first_entry(k)
      hits == {i \in 0 .. (ClusterSize - 1) :
                 tbl[c][i].key16 = 0 \/ tbl[c][i].key16 = key16_of(k)}
      i == IF hits # {} THEN CHOOSE h \in hits : \A g \in hits : h <= g
           ELSE ReplaceScan(tbl[c], gen, 0, 1)
  IN [table |-> [tbl EXCEPT ![c][i].genBound8 = Refresh(gen, @)],
      tte |-> <<c, i>>,
      found |-> hits # {} /\ tbl[c][i].key16 # 0]

\* TranspositionTable::probe(key, found): the table after the refresh, the
\* entry returned (cluster, index) and found
probe(tbl, gen, k) ==
  LET c == first_entry(k)
      hits == {i \in 0 .. (ClusterSize - 1) :
                 tbl[c][i].key16 = 0 \/ tbl[c][i].key16 = key16_of(k)}
  IN IF hits # {}
       THEN LET i == CHOOSE h \in hits : \A g \in hits : h <= g
            IN [table |-> [tbl EXCEPT ![c][i].genBound8 = Refresh(gen, @)],
                tte |-> <<c, i>>,
                found |-> tbl[c][i].key16 # 0]
       ELSE [table |-> tbl, tte |-> <<c, ReplaceScan(tbl[c], gen, 0, 1)>>, found |-> FALSE]

\* TTEntry::save as it would be if it overwrote when d >= depth8 - 4
save_DepthNotLess(e, gen, k, v, pv, b, d, m, ev) ==
  LET newKey == key16_of(k)
      e1 == IF m # 0 \/ newKey # e.key16 THEN [e EXCEPT !.move16 = ToUint16(m)] ELSE e
  IN IF newKey # e.key16 \/ d >= e.depth8 - 4 \/ b = BOUND_EXACT
       THEN [e1 EXCEPT !.key16 = newKey,
                       !.value16 = ToInt16(v),
                       !.eval16 = ToInt16(ev),
                       !.genBound8 = ToUint8(BitOr(BitOr(gen, IF pv THEN 4 ELSE 0), b)),
                       !.depth8 = ToInt8(d)]
       ELSE e1

\* TTEntry::save(k, v, pv, b, d, m, ev) on the entry e; gen is TT.generation8
save(e, gen, k, v, pv, b, d, m, ev) ==
  LET newKey == key16_of(k)
      e1 == IF m # 0 \/ newKey # e.key16 THEN [e EXCEPT !.move16 = ToUint16(m)] ELSE e
  IN IF newKey # e.key16 \/ d > e.depth8 - 4 \/ b = BOUND_EXACT
       THEN [e1 EXCEPT !.key16 = newKey,
                       !.value16 = ToInt16(v),
                       !.eval16 = ToInt16(ev),
                       !.genBound8 = ToUint8(BitOr(BitOr(gen, IF pv THEN 4 ELSE 0), b)),
                       !.depth8 = ToInt8(d)]
       ELSE e1

(***************************************************************************)
(* The position as a state machine: a caller that makes and unmakes moves  *)
(***************************************************************************)
MOVE_NULL == 65
MaxPly == 3

\* the roots: castling on both wings for both sides; a double push answered
\* by an en passant capture; an en passant capture that would expose the king
\* along the rank; promotions with and without capture; a check to evade
\* with a discovered check as one of the evasions; a pinned rook
RootFens ==
  << <<"r","3","k","2","r","/","8","/","8","/","8","/","8","/","8","/","8","/",
       "R","3","K","2","R"," ","w"," ","K","Q","k","q"," ","-"," ","0"," ","1">>,
     <<"4","k","3","/","3","p","4","/","8","/","4","P","3","/","8","/","8","/","8","/",
       "4","K","3"," ","b"," ","-"," ","-"," ","0"," ","1">>,
     <<"8","/","8","/","8","/","K","2","p","P","2","r","/","8","/","8","/","8","/",
       "4","k","3"," ","w"," ","-"," ","d","6"," ","0"," ","2">>,
     <<"1","r","2","k","3","/","P","7","/","8","/","8","/","8","/","8","/","8","/",
       "4","K","3"," ","w"," ","-"," ","-"," ","0"," ","1">>,
     <<"4","k","3","/","8","/","8","/","8","/","4","B","3","/","8","/","4","R","3","/",
       "r","3","K","3"," ","w"," ","-"," ","-"," ","0"," ","1">>,
     <<"4","k","3","/","4","r","3","/","8","/","8","/","8","/","8","/","4","R","3","/",
       "4","K","3"," ","w"," ","-"," ","-"," ","3"," ","9">> >>

\* the Position object as one record
Pos ==
  [board |-> board, byTypeBB |-> byTypeBB, byColorBB |-> byColorBB,
   pieceCount |-> pieceCount, castlingRightsMask |-> castlingRightsMask,
   castlingRookSquare |-> castlingRookSquare,
   castlingPath |-> castlingPath, sideToMove |-> sideToMove, gamePly |-> gamePly,
   chess960 |-> chess960, st |-> st, si |-> si]

SetPos(q) ==
  /\ board' = q.board
  /\ byTypeBB' = q.byTypeBB
  /\ byColorBB' = q.byColorBB
  /\ pieceCount' = q.pieceCount
  /\ castlingRightsMask' = q.castlingRightsMask
  /\ castlingRookSquare' = q.castlingRookSquare
  /\ castlingPath' = q.castlingPath
  /\ sideToMove' = q.sideToMove
  /\ gamePly' = q.gamePly
  /\ chess960' = q.chess960
  /\ st' = q.st
  /\ si' = q.si

\* no thread is inside clear(), save() or resize()
NoThreads == [main |-> [pc |-> "idle"], workers |-> <<>>]
\* what start-up left behind: the block of the table is allocated
MemAllocated(count) == [state |-> "allocated", clusterCount |-> count]
TablesReady == mem = MemAllocated(ClusterCount) /\ zobrist = ZobristReady
AuxIdle == threads = NoThreads /\ TablesReady

\* the table as resize() leaves it, not used yet
TTIdle ==
  /\ AuxIdle
  /\ table = ZeroTable /\ generation8 = 0 /\ tte = <<>> /\ found = FALSE
  /\ ttKey = <<0, 0, 0, 0>> /\ ttOps = 0 /\ lastOp = "clear" /\ lastSave = <<>>
  /\ trial = [phase |-> "zeroed"]

\* the position set() builds from one of the FEN strings; no move made yet
InitPos(fens, depth) ==
  /\ \E q \in {set(fens[n], FALSE) : n \in 1 .. Len(fens)} :
          /\ board = q.board
          /\ byTypeBB = q.byTypeBB
          /\ byColorBB = q.byColorBB
          /\ pieceCount = q.pieceCount
          /\ castlingRightsMask = q.castlingRightsMask
          /\ castlingRookSquare = q.castlingRookSquare
          /\ castlingPath = q.castlingPath
          /\ sideToMove = q.sideToMove
          /\ gamePly = q.gamePly
          /\ chess960 = q.chess960
          /\ st = q.st
          /\ si = q.si
  /\ moves = <<>>
  /\ snapshots = <<>>
  /\ maxPly = depth

\* the move values a caller hands to pseudo_legal: any NORMAL move of an own
\* piece, and the special moves (which pseudo_legal looks up in the move list)
MoveInputs(p) ==
       {make_move(from, to) : from \in pieces_c(p, p.sideToMove), to \in Squares}
  \cup {m \in LegalMoveList(p) : type_of_move(m) # NORMAL}

\* the moves the caller goes on to make: the ones both tests accept
AcceptedMoves(p) == {x \in MoveInputs(p) : IF pseudo_legal(p, x) THEN legal(p, x) ELSE FALSE}

\* the caller copies the position, then makes the move
DoMove ==
  /\ Len(moves) < maxPly
  /\ \E m \in AcceptedMoves(Pos) :
       /\ SetPos(do_move(Pos, m, gives_check(Pos, m)))
       /\ moves' = Append(moves, m)
  /\ snapshots' = Append(snapshots, Pos)
  /\ UNCHANGED <<maxPly, ttVars, auxVars>>

UndoMove ==
  /\ moves # <<>>
  /\ moves[Len(moves)] # MOVE_NULL
  /\ SetPos(undo_move(Pos, moves[Len(moves)]))
  /\ moves' = SubSeq(moves, 1, Len(moves) - 1)
  /\ snapshots' = SubSeq(snapshots, 1, Len(snapshots) - 1)
  /\ UNCHANGED <<maxPly, ttVars, auxVars>>

DoNullMove ==
  /\ Len(moves) < maxPly
  /\ checkers(Pos) = {}
  /\ SetPos(do_null_move(Pos))
  /\ moves' = Append(moves, MOVE_NULL)
  /\ snapshots' = Append(snapshots, Pos)
  /\ UNCHANGED <<maxPly, ttVars, auxVars>>

UndoNullMove ==
  /\ moves # <<>>
  /\ moves[Len(moves)] = MOVE_NULL
  /\ SetPos(undo_null_move(Pos))
  /\ moves' = SubSeq(moves, 1, Len(moves) - 1)
  /\ snapshots' = SubSeq(snapshots, 1, Len(snapshots) - 1)
  /\ UNCHANGED <<maxPly, ttVars, auxVars>>

Init == InitPos(RootFens, MaxPly) /\ TTIdle
Next == DoMove \/ UndoMove \/ DoNullMove \/ UndoNullMove
Spec == Init /\ [][Next]_vars

\* the last move made and the position it was made in
LastMove == moves[Len(moves)]
Before == snapshots[Len(snapshots)]
AfterDoMove == moves # <<>> /\ LastMove # MOVE_NULL

(***************************************************************************)
(* Shuffling pieces back and forth: the same caller, making only knight    *)
(* and king moves that can bring a position back                           *)
(***************************************************************************)
RepPly == 8

\* kings and the knights of the g-file; the same with an en passant square
\* that set() keeps; the same with castling rights that a king move loses
RepFens ==
  << <<"4","k","1","n","1","/","8","/","8","/","8","/","8","/","8","/","8","/",
       "4","K","1","N","1"," ","w"," ","-"," ","-"," ","0"," ","1">>,
     <<"4","k","1","n","1","/","8","/","8","/","3","p","P","3","/","8","/","8","/","8","/",
       "4","K","1","N","1"," ","w"," ","-"," ","d","6"," ","0"," ","2">>,
     <<"4","k","1","n","r","/","8","/","8","/","8","/","8","/","8","/","8","/",
       "4","K","1","N","R"," ","w"," ","K","k"," ","-"," ","6"," ","9">> >>

\* g1f3 f3g1 g8f6 f6g8, and the king triangles e1d1 d1e2 e2e1, e8d8 d8e7 e7e8
RepMoves ==
  {make_move(6, 21), make_move(21, 6), make_move(62, 45), make_move(45, 62),
   make_move(4, 3), make_move(3, 12), make_move(12, 4),
   make_move(60, 59), make_move(59, 52), make_move(52, 60)}

\* Nf3 Nf6 Ng1 Ng8 Nf3 Nf6 Ng1 Ng8
Shuttle ==
  <<make_move(6, 21), make_move(62, 45), make_move(21, 6), make_move(45, 62),
    make_move(6, 21), make_move(62, 45), make_move(21, 6), make_move(45, 62)>>

DoRepMove ==
  /\ Len(moves) < maxPly
  /\ \E m \in {x \in RepMoves : IF pseudo_legal(Pos, x) THEN legal(Pos, x) ELSE FALSE} :
       /\ SetPos(do_move(Pos, m, gives_check(Pos, m)))
       /\ moves' = Append(moves, m)
  /\ snapshots' = Append(snapshots, Pos)
  /\ UNCHANGED <<maxPly, ttVars, auxVars>>

InitRep == InitPos(RepFens, RepPly) /\ TTIdle
NextRep == DoRepMove \/ UndoMove \/ DoNullMove \/ UndoNullMove
SpecRep == InitRep /\ [][NextRep]_vars

(***************************************************************************)
(* Games from set-up positions: the same caller, from the start position   *)
(***************************************************************************)
StartPly == 2

\* the standard start position; pawn captures with and without a defender,
\* a bishop behind the capturing pawn, double pushes that can and cannot be
\* captured; an en passant square that set() keeps and one it drops; a
\* half-move clock ahead of the move number; a castling rook that is not on
\* its corner; an exchange on e5 with knights, bishops, rooks and queens
\* behind one another; a pinned defender and a king that may not recapture;
\* an enemy bishop behind the capturing pawn
StartFens ==
  << <<"r","n","b","q","k","b","n","r","/","p","p","p","p","p","p","p","p",
       "/","8","/","8","/","8","/","8","/","P","P","P","P","P","P","P","P",
       "/","R","N","B","Q","K","B","N","R"," ","w"," ","K","Q","k","q"," ",
       "-"," ","0"," ","1">>,
     <<"4","k","3","/","8","/","2","p","5","/","3","p","4","/","4","P","1",
       "p","1","/","8","/","P","5","B","P","/","4","K","3"," ","w"," ","-",
       " ","-"," ","0"," ","1">>,
     <<"4","k","3","/","8","/","8","/","8","/","3","P","p","3","/","8","/",
       "8","/","4","K","3"," ","b"," ","-"," ","d","3"," ","0"," ","1">>,
     <<"4","k","3","/","8","/","8","/","8","/","4","P","3","/","8","/","8",
       "/","4","K","3"," ","b"," ","-"," ","e","3"," ","0"," ","1">>,
     <<"4","k","3","/","8","/","8","/","8","/","8","/","8","/","8","/","4",
       "K","2","R"," ","w"," ","K"," ","-"," ","1"," ","1">>,
     <<"4","k","3","/","8","/","8","/","8","/","8","/","8","/","7","R","/",
       "4","K","1","R","1"," ","w"," ","K"," ","-"," ","0"," ","1">>,
     <<"1","k","1","r","3","q","/","1","p","p","n","3","p","/","p","4","b",
       "2","/","4","p","3","/","8","/","P","2","N","2","P","1","/","1","P",
       "P","1","R","1","B","P","/","2","K","1","Q","3"," ","w"," ","-"," ",
       "-"," ","0"," ","1">>,
     <<"3","r","k","3","/","8","/","3","q","4","/","4","P","3","/","6","b",
       "1","/","5","N","2","/","3","P","4","/","3","K","4"," ","b"," ","-",
       " ","-"," ","0"," ","1">>,
     <<"4","k","3","/","8","/","8","/","3","p","4","/","4","P","3","/","5",
       "b","2","/","8","/","4","K","3"," ","w"," ","-"," ","-"," ","0"," ",
       "1">> >>

InitStart == InitPos(StartFens, StartPly) /\ TTIdle
SpecStart == InitStart /\ [][Next]_vars

(***************************************************************************)
(* Positions set up with an en passant field: the same caller              *)
(***************************************************************************)
EpPly == 2

\* an en passant field on rank 3 with White to move and one on rank 6 with
\* Black to move, each with a pawn of the side to move attacking the square
\* and an enemy pawn behind it; a field on the rank of the side to move's
\* captures; a field that set() drops because no pawn can capture
EpFens ==
  << <<"4","k","3","/","8","/","8","/","8","/","8","/","8","/","3","P","p",
       "3","/","K","7"," ","w"," ","-"," ","e","3"," ","0"," ","1">>,
     <<"k","7","/","3","p","P","3","/","8","/","8","/","8","/","8","/","8",
       "/","4","K","3"," ","b"," ","-"," ","e","6"," ","0"," ","1">>,
     <<"4","k","3","/","8","/","8","/","3","p","P","3","/","8","/","8","/",
       "8","/","4","K","3"," ","w"," ","-"," ","d","6"," ","0"," ","1">>,
     <<"4","k","3","/","8","/","8","/","8","/","4","P","3","/","8","/","8",
       "/","4","K","3"," ","w"," ","-"," ","e","3"," ","0"," ","1">> >>

InitEp == InitPos(EpFens, EpPly) /\ TTIdle
SpecEp == InitEp /\ [][Next]_vars

(***************************************************************************)
(* Chess960: the same caller, from positions set up with isChess960 = true *)
(***************************************************************************)
Ply960 == 2

\* king f1 with rooks g1 and c1 (the king-side castling swaps king and rook,
\* the queen-side one puts the king where the rook stood); king g1 with
\* rooks h1 and b1 against king e8 with rooks f8 and d8 (a king or a rook
\* that stays where it is); king d1 with rook a1 (the rook ends where the
\* king stood)
Fens960 ==
  << <<"2","r","2","k","r","1","/","2","p","3","p","1","/","8","/","8","/",
       "8","/","8","/","2","P","3","P","1","/","2","R","2","K","R","1"," ",
       "w"," ","G","C","g","c"," ","-"," ","0"," ","1">>,
     <<"3","r","k","r","2","/","3","p","1","p","2","/","8","/","8","/","8",
       "/","8","/","1","P","4","P","P","/","1","R","4","K","R"," ","w"," ",
       "H","B","f","d"," ","-"," ","0"," ","1">>,
     <<"r","2","k","4","/","8","/","8","/","8","/","8","/","8","/","8","/",
       "R","2","K","4"," ","b"," ","A","a"," ","-"," ","0"," ","1">> >>

Init960 ==
  /\ \E q \in {set(Fens960[n], TRUE) : n \in 1 .. Len(Fens960)} :
          /\ board = q.board
          /\ byTypeBB = q.byTypeBB
          /\ byColorBB = q.byColorBB
          /\ pieceCount = q.pieceCount
          /\ castlingRightsMask = q.castlingRightsMask
          /\ castlingRookSquare = q.castlingRookSquare
          /\ castlingPath = q.castlingPath
          /\ sideToMove = q.sideToMove
          /\ gamePly = q.gamePly
          /\ chess960 = q.chess960
          /\ st = q.st
          /\ si = q.si
  /\ moves = <<>>
  /\ snapshots = <<>>
  /\ maxPly = Ply960
  /\ TTIdle
Spec960 == Init960 /\ [][Next]_vars

(***************************************************************************)
(* The table as a state machine: a searcher that probes, saves into the    *)
(* entry the probe returned, starts new searches and clears the table      *)
(***************************************************************************)
MaxTTOps == 7

\* four keys of cluster 0 with different high words, and a key of the last
\* cluster whose high word is zero
TTKeys ==
  {<<1, 0, 0, 0>>, <<2, 0, 0, 1>>, <<3, 0, 0, 2>>, <<4, 0, 0, 3>>, <<0, 9, 65535, 65535>>}

\* what a node saves: value, PV flag, bound, depth, move, static evaluation
SaveInputs ==
  { [v |-> 100, pv |-> TRUE, b |-> BOUND_EXACT, d |-> 1, m |-> MOVE_NONE, ev |-> -20],
    [v |-> -32000, pv |-> FALSE, b |-> BOUND_UPPER, d |-> 10, m |-> 796, ev |-> 50],
    [v |-> 5, pv |-> TRUE, b |-> BOUND_LOWER, d |-> 6, m |-> MOVE_NONE, ev |-> 0],
    [v |-> -7, pv |-> FALSE, b |-> BOUND_LOWER, d |-> 128, m |-> 2250, ev |-> 3] }

\* the bookkeeping of the probe-save-probe scenario after an operation
TrialAfterProbe(k, r) ==
  IF trial.phase \in {"zeroed", "probed"}
    THEN [phase |-> "probed", key |-> k, tte |-> r.tte, found |-> r.found]
  ELSE IF trial.phase = "saved" /\ trial.key = k
    THEN [trial EXCEPT !.phase = "reprobed"]
  ELSE IF trial.phase = "saved" THEN trial
  ELSE [phase |-> "other"]

TrialAfterSave(a) ==
  IF trial.phase = "probed" /\ trial.tte = tte /\ trial.key = ttKey
    THEN [phase |-> "saved", key |-> ttKey, tte |-> tte, args |-> a]
    ELSE [phase |-> "other"]

Probe ==
  /\ ttOps < MaxTTOps
  /\ \E k \in TTKeys :
       \E r \in {probe(table, generation8, k)} :
         /\ table' = r.table
         /\ tte' = r.tte
         /\ found' = r.found
         /\ ttKey' = k
         /\ trial' = TrialAfterProbe(k, r)
  /\ ttOps' = ttOps + 1
  /\ lastOp' = "probe"
  /\ UNCHANGED <<generation8, lastSave, posVars, auxVars>>

\* the searcher saves under the key it probed, into the entry it was given
Save ==
  /\ ttOps < MaxTTOps
  /\ tte # <<>>
  /\ \E a \in SaveInputs :
       /\ table' = [table EXCEPT ![tte[1]][tte[2]] =
                      save(@, generation8, ttKey, a.v, a.pv, a.b, a.d, a.m, a.ev)]
       /\ lastSave' = [args |-> a, k |-> ttKey, before |-> table[tte[1]][tte[2]], gen |-> generation8]
       /\ trial' = TrialAfterSave(a)
  /\ ttOps' = ttOps + 1
  /\ lastOp' = "save"
  /\ UNCHANGED <<generation8, tte, found, ttKey, posVars, auxVars>>

\* new_search(): generation8 += 8, the lower three bits belong to PV and bound
NewSearch ==
  /\ ttOps < MaxTTOps
  /\ generation8' = ToUint8(generation8 + 8)
  /\ trial' = IF trial.phase = "saved" THEN trial ELSE [phase |-> "other"]
  /\ ttOps' = ttOps + 1
  /\ lastOp' = "new_search"
  /\ UNCHANGED <<table, tte, found, ttKey, lastSave, posVars, auxVars>>

Clear ==
  /\ ttOps < MaxTTOps
  /\ table' = ZeroTable
  /\ trial' = [phase |-> "zeroed"]
  /\ ttOps' = ttOps + 1
  /\ lastOp' = "clear"
  /\ UNCHANGED <<generation8, tte, found, ttKey, lastSave, posVars, auxVars>>

\* a zeroed table; generation8 is 0 after start-up and 248 after 31 searches
\* followed by clear(), which leaves generation8 alone
InitTT ==
  /\ InitPos(<<RootFens[1]>>, 0)
  /\ AuxIdle
  /\ table = ZeroTable /\ generation8 \in {0, 248} /\ tte = <<>> /\ found = FALSE
  /\ ttKey = <<0, 0, 0, 0>> /\ ttOps = 0 /\ lastOp = "clear" /\ lastSave = <<>>
  /\ trial = [phase |-> "zeroed"]
NextTT == Probe \/ Save \/ NewSearch \/ Clear
SpecTT == InitTT /\ [][NextTT]_vars

(***************************************************************************)
(* The table after long use: an entry written in any of the 32 generations *)
(* with any PV flag and bound, met in any generation                       *)
(***************************************************************************)
AgeOps == 1
Generations == {8 * g : g \in 0 .. 31}

\* what the last save stored, and the entry it left in a zeroed slot
AgedSave(pv, b) == [v |-> 100, pv |-> pv, b |-> b, d |-> 1, m |-> MOVE_NONE, ev |-> -20]
AgedEntry(gen, pv, b) == save(ZeroEntry, gen, <<1, 0, 0, 0>>, 100, pv, b, 1, MOVE_NONE, -20)
\* an entry of an earlier search, saved under a key with the high word k16
OldEntry(k16, d) == save(ZeroEntry, 0, <<k16, 0, 0, 0>>, 30, FALSE, BOUND_LOWER, d, 1234, 7)

\* cluster 0 is full: two entries of the first search and the entry of the
\* last save, made in any generation; AgeOps more operations follow
InitAge ==
  /\ InitPos(<<RootFens[1]>>, 0)
  /\ AuxIdle
  /\ generation8 \in Generations
  /\ \E gen \in Generations, pv \in BOOLEAN, b \in 0 .. 3 :
        /\ table = [ZeroTable EXCEPT ![0] = [i \in 0 .. (ClusterSize - 1) |->
                                               IF i = 0 THEN AgedEntry(gen, pv, b)
                                               ELSE OldEntry(1 + i, 8 + i)]]
        /\ lastSave = [args |-> AgedSave(pv, b), k |-> <<1, 0, 0, 0>>,
                       before |-> ZeroEntry, gen |-> gen]
  /\ tte = <<>> /\ found = FALSE /\ ttKey = <<0, 0, 0, 0>>
  /\ ttOps = MaxTTOps - AgeOps /\ lastOp = "save"
  /\ trial = [phase |-> "other"]
NextAge == Probe \/ NewSearch
SpecAge == InitAge /\ [][NextAge]_vars

(***************************************************************************)
(* clear() step by step: the caller starts threadCount threads, each       *)
(* zeroes its part of the table cluster by cluster, the caller joins them  *)
(***************************************************************************)
MaxThreads == 3
MaxClusters == 5

\* the number of clusters of the table
clusterCount == mem.clusterCount
ZeroCluster == [i \in 0 .. (ClusterSize - 1) |-> ZeroEntry]

\* the part as it would be if the last thread took one stride like the others
ClearRange_LastStride(count, threadCount, idx) ==
  LET stride == count \div threadCount
  IN [start |-> stride * idx, len |-> stride]

\* stride, start and len of the thread idx (lines 76-79)
ClearRange(count, threadCount, idx) ==
  LET stride == count \div threadCount
      start == stride * idx
  IN [start |-> start,
      len |-> IF idx # threadCount - 1 THEN stride ELSE count - start]

\* a table of n clusters in use, Options["Threads"] = t, clear() just called
InitClear ==
  /\ InitPos(<<RootFens[1]>>, 0)
  /\ \E n \in 1 .. MaxClusters :
        /\ table = [c \in 0 .. (n - 1) |-> [i \in 0 .. (ClusterSize - 1) |-> AgedEntry(8, TRUE, BOUND_EXACT)]]
        /\ mem = MemAllocated(n)
  /\ zobrist = ZobristReady
  /\ \E t \in 1 .. MaxThreads :
        threads = [main |-> [pc |-> "spawn", idx |-> 0, threadCount |-> t], workers |-> <<>>]
  /\ generation8 = 8 /\ tte = <<>> /\ found = FALSE /\ ttKey = <<0, 0, 0, 0>>
  /\ ttOps = 0 /\ lastOp = "save" /\ lastSave = <<>>
  /\ trial = [phase |-> "other"]

\* threads.emplace_back(...): the thread idx starts with idx and threadCount
\* captured by value (lines 66-68); after the last one the joins begin
ClearSpawn ==
  /\ threads.main.pc = "spawn"
  /\ threads' = [main |-> IF threads.main.idx + 1 < threads.main.threadCount
                            THEN [threads.main EXCEPT !.idx = @ + 1]
                            ELSE [threads.main EXCEPT !.pc = "join", !.idx = 0],
                  workers |-> Append(threads.workers,
                                     [pc |-> "start", idx |-> threads.main.idx,
                                      threadCount |-> threads.main.threadCount])]
  /\ UNCHANGED <<zobrist, posVars, ttVars, mem>>

\* a step of a worker: it computes its part, then zeroes it cluster by
\* cluster (std::memset, line 81)
ClearWorker ==
  \E w \in 1 .. Len(threads.workers) :
    LET me == threads.workers[w]
        r == ClearRange(clusterCount, me.threadCount, me.idx)
    IN \/ /\ me.pc = "start"
          /\ threads' = [threads EXCEPT !.workers[w] =
                           IF r.len = 0 THEN [me EXCEPT !.pc = "done"]
                           ELSE [pc |-> "memset", idx |-> me.idx, threadCount |-> me.threadCount,
                                 pos |-> r.start, end |-> r.start + r.len]]
          /\ UNCHANGED <<zobrist, posVars, ttVars, mem>>
       \/ /\ me.pc = "memset"
          /\ table' = [table EXCEPT ![me.pos] = ZeroCluster]
          /\ threads' = [threads EXCEPT !.workers[w] =
                           IF me.pos + 1 = me.end
                             THEN [pc |-> "done", idx |-> me.idx, threadCount |-> me.threadCount]
                             ELSE [me EXCEPT !.pos = @ + 1]]
          /\ UNCHANGED <<zobrist, posVars, generation8, tte, found, ttKey, ttOps, lastOp, lastSave, trial, mem>>

\* th.join() for the threads in the order they were started (lines 84-85);
\* clear() returns after the last join
ClearJoin ==
  /\ threads.main.pc = "join"
  /\ threads.workers[threads.main.idx + 1].pc = "done"
  /\ threads' = [threads EXCEPT !.main =
                   IF threads.main.idx + 1 < threads.main.threadCount
                     THEN [threads.main EXCEPT !.idx = @ + 1]
                     ELSE [threads.main EXCEPT !.pc = "returned"]]
  /\ UNCHANGED <<zobrist, posVars, ttVars, mem>>

NextClear == ClearSpawn \/ ClearWorker \/ ClearJoin
SpecClear == InitClear /\ [][NextClear]_vars

(***************************************************************************)
(* Searchers sharing the table: each worker probes a key and saves into    *)
(* the entry it was given; save() writes the entry field by field, and the *)
(* steps of two workers interleave                                         *)
(***************************************************************************)
MaxRounds == 3

\* two keys of cluster 0 with different high words
SmpKeys == {<<1, 0, 0, 0>>, <<2, 0, 0, 1>>}

\* a deep save with a move, a shallow one with a move, an exact one without
SmpSaves ==
  { [v |-> -7, pv |-> FALSE, b |-> BOUND_LOWER, d |-> 20, m |-> 2250, ev |-> 3],
    [v |-> 5, pv |-> TRUE, b |-> BOUND_UPPER, d |-> 6, m |-> 796, ev |-> 50],
    [v |-> 100, pv |-> TRUE, b |-> BOUND_EXACT, d |-> 1, m |-> MOVE_NONE, ev |-> -20] }

\* the fields of an entry that hold the data of a position
DataFields == {"move16", "value16", "eval16", "depth8", "bound"}
\* for every data field of an entry, the high word of the key of the save
\* that wrote it
WrittenBy(k16) == [f \in DataFields |-> k16]

\* the first statement as it would be without the test newKey != key16
SaveStep_MoveOnlyIfGiven(e, pc, newKey, a, gen) ==
  CASE pc = "move16" ->
         IF a.m # 0
           THEN [e |-> [e EXCEPT !.move16 = ToUint16(a.m)], pc |-> "test", wrote |-> "move16"]
           ELSE [e |-> e, pc |-> "test", wrote |-> "none"]
    [] pc = "test" ->
         [e |-> e, wrote |-> "none",
          pc |-> IF newKey # e.key16 \/ a.d > e.depth8 - 4 \/ a.b = BOUND_EXACT
                   THEN "key16" ELSE "idle"]
    [] pc = "key16" -> [e |-> [e EXCEPT !.key16 = newKey], pc |-> "value16", wrote |-> "none"]
    [] pc = "value16" -> [e |-> [e EXCEPT !.value16 = ToInt16(a.v)], pc |-> "eval16", wrote |-> "value16"]
    [] pc = "eval16" -> [e |-> [e EXCEPT !.eval16 = ToInt16(a.ev)], pc |-> "genBound8", wrote |-> "eval16"]
    [] pc = "genBound8" ->
         [e |-> [e EXCEPT !.genBound8 = ToUint8(BitOr(BitOr(gen, IF a.pv THEN 4 ELSE 0), a.b))],
          pc |-> "depth8", wrote |-> "bound"]
    [] OTHER -> [e |-> [e EXCEPT !.depth8 = ToInt8(a.d)], pc |-> "idle", wrote |-> "depth8"]

\* one statement of TTEntry::save (lines 132-145) on the entry e: the entry
\* after it, the statement that follows and the data field it wrote
SaveStep(e, pc, newKey, a, gen) ==
  CASE pc = "move16" ->
         IF a.m # 0 \/ newKey # e.key16
           THEN [e |-> [e EXCEPT !.move16 = ToUint16(a.m)], pc |-> "test", wrote |-> "move16"]
           ELSE [e |-> e, pc |-> "test", wrote |-> "none"]
    [] pc = "test" ->
         [e |-> e, wrote |-> "none",
          pc |-> IF newKey # e.key16 \/ a.d > e.depth8 - 4 \/ a.b = BOUND_EXACT
                   THEN "key16" ELSE "idle"]
    [] pc = "key16" -> [e |-> [e EXCEPT !.key16 = newKey], pc |-> "value16", wrote |-> "none"]
    [] pc = "value16" -> [e |-> [e EXCEPT !.value16 = ToInt16(a.v)], pc |-> "eval16", wrote |-> "value16"]
    [] pc = "eval16" -> [e |-> [e EXCEPT !.eval16 = ToInt16(a.ev)], pc |-> "genBound8", wrote |-> "eval16"]
    [] pc = "genBound8" ->
         [e |-> [e EXCEPT !.genBound8 = ToUint8(BitOr(BitOr(gen, IF a.pv THEN 4 ELSE 0), a.b))],
          pc |-> "depth8", wrote |-> "bound"]
    [] OTHER -> [e |-> [e EXCEPT !.depth8 = ToInt8(a.d)], pc |-> "idle", wrote |-> "depth8"]

NewWorker(rounds) == [pc |-> "idle", rounds |-> rounds]

\* cluster 0 is full of entries of an earlier search; one worker with three
\* rounds of probe and save, or two workers with one round each
InitSMP ==
  /\ InitPos(<<RootFens[1]>>, 0)
  /\ TablesReady
  /\ table = [ZeroTable EXCEPT ![0] = [i \in 0 .. (ClusterSize - 1) |-> OldEntry(5 + i, 9 + i)]]
  /\ \E ws \in {<<NewWorker(MaxRounds)>>, <<NewWorker(1), NewWorker(1)>>} :
        threads = [main |-> [pc |-> "search"], workers |-> ws,
                   writer |-> [c \in 0 .. (ClusterCount - 1) |->
                                [i \in 0 .. (ClusterSize - 1) |-> WrittenBy(table[c][i].key16)]]]
  /\ generation8 = 8 /\ tte = <<>> /\ found = FALSE /\ ttKey = <<0, 0, 0, 0>>
  /\ ttOps = 0 /\ lastOp = "new_search" /\ lastSave = <<>>
  /\ trial = [phase |-> "other"]

\* a worker probes a key: probe() as one step
SmpProbe ==
  \E w \in 1 .. Len(threads.workers) :
    /\ threads.workers[w].pc = "idle"
    /\ threads.workers[w].rounds > 0
    /\ \E k \in SmpKeys :
         \E r \in {probe(table, generation8, k)} :
           /\ table' = r.table
           /\ threads' = [threads EXCEPT !.workers[w] =
                            [pc |-> "probed", rounds |-> @.rounds - 1, k |-> k,
                             tte |-> r.tte, found |-> r.found]]
    /\ UNCHANGED <<zobrist, posVars, generation8, tte, found, ttKey, ttOps, lastOp, lastSave, trial, mem>>

\* the worker calls tte->save(...) for the key it probed
SmpSaveCall ==
  \E w \in 1 .. Len(threads.workers) :
    /\ threads.workers[w].pc = "probed"
    /\ \E a \in SmpSaves :
         threads' = [threads EXCEPT !.workers[w] =
                       [pc |-> "move16", rounds |-> @.rounds, k |-> @.k, tte |-> @.tte,
                        a |-> a, before |-> table[@.tte[1]][@.tte[2]]]]
    /\ UNCHANGED <<zobrist, posVars, ttVars, mem>>

\* the next statement of the save() of a worker; when save() returns the
\* worker keeps what it saved and the entry it found
SmpSaveStep ==
  \E w \in 1 .. Len(threads.workers) :
    LET me == threads.workers[w]
    IN /\ me.pc \notin {"idle", "probed"}
       /\ \E r \in {SaveStep(table[me.tte[1]][me.tte[2]], me.pc, key16_of(me.k), me.a, generation8)} :
            /\ table' = [table EXCEPT ![me.tte[1]][me.tte[2]] = r.e]
            /\ threads' = [threads EXCEPT
                             !.workers[w].pc = r.pc,
                             !.writer[me.tte[1]][me.tte[2]] =
                                IF r.wrote = "none" THEN @
                                ELSE [@ EXCEPT ![r.wrote] = key16_of(me.k)]]
       /\ UNCHANGED <<zobrist, posVars, generation8, tte, found, ttKey, ttOps, lastOp, lastSave, trial, mem>>

NextSMP == SmpProbe \/ SmpSaveCall \/ SmpSaveStep
SpecSMP == InitSMP /\ [][NextSMP]_vars

(***************************************************************************)
(* resize() step by step, called by the UCI thread while the search thread *)
(* may still be probing and saving                                         *)
(***************************************************************************)
MaxSearchSteps == 2
SizeofCluster == 32
ResizeMbs == {1, 16}

\* a table with every entry written: the bytes malloc may hand out
UsedTable == [c \in 0 .. (ClusterCount - 1) |->
               [i \in 0 .. (ClusterSize - 1) |-> AgedEntry(248, TRUE, BOUND_EXACT)]]

\* setoption Hash arrives: resize(mbSize) is called while a search started
\* earlier may be running
InitResize ==
  /\ InitPos(<<RootFens[1]>>, 0)
  /\ TablesReady
  /\ table = [ZeroTable EXCEPT ![0][0] = OldEntry(5, 9)]
  /\ \E mb \in ResizeMbs, s \in {"searching", "idle"} :
        threads = [main |-> [pc |-> "wait", mbSize |-> mb, log |-> <<>>],
                   workers |-> <<[pc |-> s, steps |-> 0, dangling |-> FALSE]>>]
  /\ generation8 = 8 /\ tte = <<>> /\ found = FALSE /\ ttKey = <<0, 0, 0, 0>>
  /\ ttOps = 0 /\ lastOp = "new_search" /\ lastSave = <<>>
  /\ trial = [phase |-> "other"]

\* the search thread probes a key and saves into the entry it is given;
\* dangling records an access to a block that is not allocated
SearchStep ==
  /\ threads.workers[1].pc = "searching"
  /\ threads.workers[1].steps < MaxSearchSteps
  /\ \E k \in SmpKeys, a \in SmpSaves :
       \E r \in {probe(table, generation8, k)} :
         table' = [r.table EXCEPT ![r.tte[1]][r.tte[2]] =
                     save(@, generation8, k, a.v, a.pv, a.b, a.d, a.m, a.ev)]
  /\ threads' = [threads EXCEPT !.workers[1].steps = @ + 1,
                                 !.workers[1].dangling = @ \/ mem.state # "allocated"]
  /\ UNCHANGED <<zobrist, posVars, generation8, tte, found, ttKey, ttOps, lastOp, lastSave, trial, mem>>

\* the search comes to its end
SearchFinish ==
  /\ threads.workers[1].pc = "searching"
  /\ threads' = [threads EXCEPT !.workers[1].pc = "idle"]
  /\ UNCHANGED <<zobrist, posVars, ttVars, mem>>

\* Threads.main()->wait_for_search_finished() returns when no search runs;
\* then clusterCount is computed (lines 39-41)
ResizeWait ==
  /\ threads.main.pc = "wait"
  /\ threads.workers[1].pc = "idle"
  /\ mem' = [mem EXCEPT !.clusterCount = CDiv(threads.main.mbSize * 1024 * 1024, SizeofCluster)]
  /\ threads' = [threads EXCEPT !.main.pc = "free", !.main.log = Append(@, "wait")]
  /\ UNCHANGED <<zobrist, posVars, ttVars>>

\* free(mem) (line 43)
ResizeFree ==
  /\ threads.main.pc = "free"
  /\ mem' = [mem EXCEPT !.state = "freed"]
  /\ threads' = [threads EXCEPT !.main.pc = "malloc", !.main.log = Append(@, "free")]
  /\ UNCHANGED <<zobrist, posVars, ttVars>>

\* mem = malloc(...) (line 44): a null pointer, or a block with any content
ResizeMalloc ==
  /\ threads.main.pc = "malloc"
  /\ \/ mem' = [mem EXCEPT !.state = "null"] /\ table' = table
     \/ mem' = [mem EXCEPT !.state = "allocated"] /\ table' \in {ZeroTable, UsedTable}
  /\ threads' = [threads EXCEPT !.main.pc = "check", !.main.log = Append(@, "malloc")]
  /\ UNCHANGED <<zobrist, posVars, generation8, tte, found, ttKey, ttOps, lastOp, lastSave, trial>>

\* the failure branch as it would be without exit()
ResizeFail_GoesOn ==
  /\ threads.main.pc = "check"
  /\ mem.state = "null"
  /\ table' = ZeroTable
  /\ threads' = [threads EXCEPT !.main.pc = "done", !.main.log = @ \o <<"message", "clear">>]
  /\ UNCHANGED <<zobrist, posVars, generation8, tte, found, ttKey, ttOps, lastOp, lastSave, trial, mem>>

\* if (!mem): the message on std::cerr, then exit(EXIT_FAILURE) (lines 46-51)
ResizeFail ==
  /\ threads.main.pc = "check"
  /\ mem.state = "null"
  /\ threads' = [threads EXCEPT !.main.pc = "exited", !.main.log = @ \o <<"message", "exit">>]
  /\ UNCHANGED <<zobrist, posVars, ttVars, mem>>

\* table = the aligned block; clear() (lines 53-54)
ResizeClear ==
  /\ threads.main.pc = "check"
  /\ mem.state # "null"
  /\ table' = ZeroTable
  /\ threads' = [threads EXCEPT !.main.pc = "done", !.main.log = Append(@, "clear")]
  /\ UNCHANGED <<zobrist, posVars, generation8, tte, found, ttKey, ttOps, lastOp, lastSave, trial, mem>>

\* resize() has returned; the UCI thread goes on and starts a search
UciGo ==
  /\ threads.main.pc = "done"
  /\ threads' = [threads EXCEPT !.main.pc = "idle", !.workers[1].pc = "searching"]
  /\ UNCHANGED <<zobrist, posVars, ttVars, mem>>

NextResize ==
  \/ SearchStep \/ SearchFinish \/ ResizeWait \/ ResizeFree \/ ResizeMalloc
  \/ ResizeFail \/ ResizeClear \/ UciGo
SpecResize == InitResize /\ [][NextResize]_vars

(***************************************************************************)
(* Position::init() step by step                                           *)
(***************************************************************************)
\* start-up: the tables are zero (static storage), init() has drawn nothing,
\* no position is set up and the table has no block yet
InitZobrist ==
  /\ \E q \in {ZeroPosition(FALSE)} :
          /\ board = q.board
          /\ byTypeBB = q.byTypeBB
          /\ byColorBB = q.byColorBB
          /\ pieceCount = q.pieceCount
          /\ castlingRightsMask = q.castlingRightsMask
          /\ castlingRookSquare = q.castlingRookSquare
          /\ castlingPath = q.castlingPath
          /\ sideToMove = q.sideToMove
          /\ gamePly = q.gamePly
          /\ chess960 = q.chess960
          /\ st = q.st
          /\ si = q.si
  /\ moves = <<>> /\ snapshots = <<>> /\ maxPly = 0
  /\ table = <<>> /\ generation8 = 0 /\ tte = <<>> /\ found = FALSE
  /\ ttKey = <<0, 0, 0, 0>> /\ ttOps = 0 /\ lastOp = "none" /\ lastSave = <<>>
  /\ trial = [phase |-> "other"]
  /\ threads = NoThreads
  /\ mem = [state |-> "null", clusterCount |-> 0]
  /\ zobrist = ZobristStart

\* the next statement of Position::init()
InitZobristStep ==
  /\ zobrist.pc # "done"
  /\ zobrist' = InitStep(zobrist)
  /\ UNCHANGED <<posVars, ttVars, threads, mem>>

SpecInit == InitZobrist /\ [][InitZobristStep]_vars

(***************************************************************************)
(* set() called with the counters of a FEN string                          *)
(***************************************************************************)
\* the halfmove clocks and fullmove numbers of the strings handed to set()
Rule50Inputs == {0, 1, 2, 3, 50, 99, 100, 101}
FullmoveInputs == {0, 1, 2, 3, 10, 51, 52, (INT_MAX \div 2) + 1, (INT_MAX \div 2) + 2, INT_MAX}

\* two kings, the side to move and the two counters
FenWith(black, rule50, fullmove) ==
  <<"4", "k", "3", "/", "8", "/", "8", "/", "8", "/", "8", "/", "8", "/", "8", "/", "4", "K", "3", " ">>
    \o <<IF black THEN "b" ELSE "w", " ", "-", " ", "-", " ">>
    \o ToDecimal(rule50) \o <<" ">> \o ToDecimal(fullmove)

\* the product in line 251 has no value for these counters
GamePlyOverflows(rule50, fullmove) ==
  Times2Overflows(Max(fullmove, (rule50 \div 2) + 1) - 1)

\* the thread that reads the commands has set up "... w - - 0 1"
InitFen ==
  /\ InitPos(<<FenWith(FALSE, 0, 1)>>, 0)
  /\ TablesReady
  /\ threads = [main |-> [pc |-> "position", black |-> FALSE, rule50 |-> 0, fullmove |-> 1],
                workers |-> <<>>]
  /\ table = ZeroTable /\ generation8 = 0 /\ tte = <<>> /\ found = FALSE
  /\ ttKey = <<0, 0, 0, 0>> /\ ttOps = 0 /\ lastOp = "clear" /\ lastSave = <<>>
  /\ trial = [phase |-> "zeroed"]

\* pos.set(fen, false, ...) with a new string; where the product has no
\* value the build either goes on with the wrapped int or traps
SetFen ==
  /\ threads.main.pc = "position"
  /\ \E black \in BOOLEAN, rule50 \in Rule50Inputs, fullmove \in FullmoveInputs :
       \/ /\ SetPos(set(FenWith(black, rule50, fullmove), FALSE))
          /\ threads' = [threads EXCEPT !.main = [pc |-> "position", black |-> black,
                                                  rule50 |-> rule50, fullmove |-> fullmove]]
       \/ /\ GamePlyOverflows(rule50, fullmove)
          /\ threads' = [threads EXCEPT !.main = [pc |-> "trapped", black |-> black,
                                                  rule50 |-> rule50, fullmove |-> fullmove]]
          /\ UNCHANGED <<board, byTypeBB, byColorBB, pieceCount, castlingRightsMask,
                         castlingRookSquare, castlingPath, sideToMove, gamePly, chess960, st, si>>
  /\ UNCHANGED <<moves, snapshots, maxPly, ttVars, mem, zobrist>>

SpecFen == InitFen /\ [][SetFen]_vars

(***************************************************************************)
(* Claims                                                                  *)
(***************************************************************************)

\* C1: do_move(m, newSt, gives_check(m)) followed by undo_move(m) restores
\* the position exactly (board, bitboards, piece counts, side to move,
\* gamePly, st and the StateInfo st points to), for every legal move of
\* every type.
C1_UndoRestores == AfterDoMove => undo_move(Pos, LastMove) = Before

\* C1 witness: a promotion that captures has been made and is about to be undone.
C1_Witness ==
  /\ AfterDoMove
  /\ type_of_move(LastMove) = PROMOTION
  /\ si[st].capturedPiece # NO_PIECE

\* C2: after any sequence of do_move and do_null_move calls the keys kept
\* incrementally (key, pawnKey, materialKey) equal the ones set_state
\* computes from scratch for the resulting position.
C2_KeysAsSetState ==
  \E q \in {set_state(Pos, st)} :
    /\ si[st].key = q.si[st].key
    /\ si[st].pawnKey = q.si[st].pawnKey
    /\ si[st].materialKey = q.si[st].materialKey

\* C2 witness: an en passant capture made right after the double push.
C2_Witness ==
  /\ AfterDoMove
  /\ type_of_move(LastMove) = ENPASSANT
  /\ Len(moves) = 2

\* C3: after do_move of a move that pseudo_legal and legal both accepted (and
\* after the undo and null-move operations), the king of the side not to
\* move is not attacked by the side to move.
C3_KingNotLeftInCheck ==
  attackers(Pos, square_KING(Pos, Not(sideToMove))) \cap pieces_c(Pos, sideToMove) = {}

\* C3 witness: the side that moved was in check before its move.
C3_Witness == AfterDoMove /\ checkers(Before) # {}

\* C4: pseudo_legal(m) and legal(m) are both true exactly for the members of
\* the legal move list, for every 16-bit move value m.
C4_AcceptedIffInMoveList ==
  \A m \in AllMoves :
    (IF pseudo_legal(Pos, m) THEN legal(Pos, m) ELSE FALSE) <=> m \in LegalMoveList(Pos)

\* C5: gives_check(m) is true exactly when, after do_move(m), the king of the
\* new side to move is attacked by a piece of the mover.
C5_GivesCheckIffChecked ==
  AfterDoMove =>
    (gives_check(Before, LastMove)
       <=> attackers(Pos, square_KING(Pos, sideToMove)) \cap pieces_c(Pos, Not(sideToMove)) # {})

\* C5 witness: a discovered check: the piece that moved does not attack the king.
C5_Witness ==
  /\ AfterDoMove
  /\ gives_check(Before, LastMove)
  /\ ~DirectCheck(Before, LastMove)
  /\ type_of_move(LastMove) = NORMAL

\* the fields of the entry the last probe returned are the ones the
\* scenario saved: the move, the value, the evaluation, the depth, the PV
\* bit and the bound bits
TrialFieldsIntact ==
  /\ tte # <<>>
  /\ table[tte[1]][tte[2]].move16 = trial.args.m
  /\ table[tte[1]][tte[2]].value16 = trial.args.v
  /\ table[tte[1]][tte[2]].eval16 = trial.args.ev
  /\ table[tte[1]][tte[2]].depth8 = trial.args.d
  /\ (BitAnd(table[tte[1]][tte[2]].genBound8, 4) # 0) = trial.args.pv
  /\ BitAnd(table[tte[1]][tte[2]].genBound8, 3) = trial.args.b

\* on a table just zeroed, probe(k) returns found = false and an entry of
\* the cluster of k
TrialProbeOfZeroed ==
  trial.phase = "probed" => (~trial.found /\ trial.tte[1] = first_entry(trial.key))

\* C6 as stated: for every key k, on a table just zeroed by clear(), probe(k)
\* returns found = false and an entry e of k's cluster; after e.save(k, ...)
\* the next probe(k), with no other save in between, returns found = true
\* and the same entry, whose fields are exactly the saved ones.
C6_ProbeSaveProbe ==
  /\ TrialProbeOfZeroed
  /\ trial.phase = "reprobed" => (found /\ tte = trial.tte /\ TrialFieldsIntact)

\* C6 amended: the same for every key whose high 16 bits are not all zero
\* and every depth that fits the signed 8 bits of depth8 (-128 .. 127).
C6_ProbeSaveProbeStorable ==
  /\ TrialProbeOfZeroed
  /\ (trial.phase = "reprobed" /\ key16_of(trial.key) # 0 /\ trial.args.d \in -128 .. 127)
       => (found /\ tte = trial.tte /\ TrialFieldsIntact)

\* C6 witness: the second probe of the key, after a save with the PV flag
\* set and a new search in between.
C6_Witness ==
  /\ trial.phase = "reprobed"
  /\ key16_of(trial.key) # 0
  /\ trial.args.d \in -128 .. 127
  /\ trial.args.pv
  /\ lastSave.gen # generation8

\* the entry the last save wrote, before and after
SavedBefore == lastSave.before
SavedAfter == table[tte[1]][tte[2]]

\* C7: save(k, v, pv, b, d, m, ev) replaces move16 by m when m is not the
\* null (zero) move or k >> 48 differs from key16, and leaves it otherwise;
\* it overwrites key16, value16, eval16, depth8 and genBound8 when k >> 48
\* differs from key16, or d > depth8 - 4, or b is Exact, and leaves all five
\* otherwise.
C7_SaveOverwriteRule ==
  lastOp = "save" =>
    /\ SavedAfter.move16 =
         IF lastSave.args.m # MOVE_NONE \/ key16_of(lastSave.k) # SavedBefore.key16
           THEN lastSave.args.m ELSE SavedBefore.move16
    /\ IF \/ key16_of(lastSave.k) # SavedBefore.key16
          \/ lastSave.args.d > SavedBefore.depth8 - 4
          \/ lastSave.args.b = BOUND_EXACT
         THEN /\ SavedAfter.key16 = key16_of(lastSave.k)
              /\ SavedAfter.value16 = lastSave.args.v
              /\ SavedAfter.eval16 = lastSave.args.ev
              /\ SavedAfter.depth8 = ToInt8(lastSave.args.d)
              /\ SavedAfter.genBound8 =
                   lastSave.gen + (IF lastSave.args.pv THEN 4 ELSE 0) + lastSave.args.b
         ELSE /\ SavedAfter.key16 = SavedBefore.key16
              /\ SavedAfter.value16 = SavedBefore.value16
              /\ SavedAfter.eval16 = SavedBefore.eval16
              /\ SavedAfter.depth8 = SavedBefore.depth8
              /\ SavedAfter.genBound8 = SavedBefore.genBound8

\* C7 witness: a save for the same key with no move, a depth of exactly
\* depth8 - 4 and a bound that is not Exact: nothing is written.
C7_Witness ==
  /\ lastOp = "save"
  /\ key16_of(lastSave.k) = SavedBefore.key16
  /\ lastSave.args.m = MOVE_NONE
  /\ SavedBefore.move16 # MOVE_NONE
  /\ lastSave.args.d = SavedBefore.depth8 - 4
  /\ lastSave.args.b # BOUND_EXACT

\* the cluster of the key probed last, and the replacement score of its entries
ProbedCluster == table[first_entry(ttKey)]
Score(i) == ProbedCluster[i].depth8 - BitAnd(263 + generation8 - ProbedCluster[i].genBound8, 248)
NoEntryMatches ==
  \A i \in 0 .. (ClusterSize - 1) : ProbedCluster[i].key16 \notin {0, key16_of(ttKey)}

RepeatDistances ==
  {i \in 4 .. Min(si[st].rule50, si[st].pliesFromNull) :
     i % 2 = 0 /\ st - i >= 1 /\ si[st - i].key = si[st].key}

\* C9: after do_move, repetition is 0 when no ancestor at such a distance
\* has the same key; otherwise, with i the smallest such distance, it is +i
\* when that ancestor's repetition is 0 and -i when it is not.
C9_RepetitionDistance ==
  AfterDoMove =>
    si[st].repetition =
      IF RepeatDistances = {} THEN 0
      ELSE LET i == CHOOSE d \in RepeatDistances : \A e \in RepeatDistances : d <= e
           IN IF si[st - i].repetition = 0 THEN i ELSE -i

\* C9 witness: the nearest earlier occurrence is six plies back.
C9_Witness == AfterDoMove /\ si[st].repetition = 6

\* C10 as stated: from any position set() builds in which the eight moves
\* Nf3 Nf6 Ng1 Ng8 Nf3 Nf6 Ng1 Ng8 are legal, after the eighth do_move
\* repetition is negative and is_draw(9) is true.
C10_ShuttleIsThreefold ==
  moves = Shuttle => (si[st].repetition < 0 /\ is_draw(Pos, 9))

\* C10 amended: the same, from any position set() builds without an en
\* passant square (st->epSquare == SQ_NONE after set()).
C10_ShuttleIsThreefoldNoEp ==
  (moves = Shuttle /\ si[1].epSquare = SQ_NONE) => (si[st].repetition < 0 /\ is_draw(Pos, 9))

\* C10 witness: the eight moves made from a root with castling rights and no
\* en passant square.
C10_Witness ==
  /\ moves = Shuttle
  /\ si[1].epSquare = SQ_NONE
  /\ si[1].castlingRights # {}


\* the plies a search of the shuffling caller can call is_draw with
Plies == 0 .. (RepPly + 1)

\* C11 as stated: for every value of st->repetition and every ply >= 0,
\* is_draw(ply) is true if and only if repetition is not 0 and its absolute
\* value is less than ply.
C11_IsDrawAbsolute ==
  \A ply \in Plies :
    is_draw(Pos, ply) <=> (si[st].repetition # 0 /\ Abs(si[st].repetition) < ply)

\* C11 amended: is_draw(ply) is true if and only if repetition is negative
\* (a three-fold, whatever the ply) or 0 < repetition < ply (a two-fold
\* strictly after the root).
C11_IsDrawSigned ==
  \A ply \in Plies :
    is_draw(Pos, ply) <=>
      (si[st].repetition < 0 \/ (si[st].repetition > 0 /\ si[st].repetition < ply))

\* C11 witness: a three-fold four plies after the previous occurrence, asked
\* about at a ply smaller than the distance.
C11_Witness == AfterDoMove /\ si[st].repetition = -4 /\ is_draw(Pos, 2)


\* s ends with the characters of suffix
EndsWith(s, suffix) ==
  /\ Len(s) >= Len(suffix)
  /\ SubSeq(s, Len(s) - Len(suffix) + 1, Len(s)) = suffix

\* e2e4 has been made from the standard start position
E2E4 == make_move(12, 28)
AfterE2E4 == moves = <<E2E4>> /\ fen(Before) = StartFens[1]

\* the start key with the white pawn taken from e2 and put on e4 and the
\* side to move changed
KeyAfterE2E4 ==
  XorKey(XorKey(XorKey(si[1].key, Zobrist_psq(make_piece(WHITE, PAWN), 12)),
                Zobrist_psq(make_piece(WHITE, PAWN), 28)),
         Zobrist_side)

\* C12 as stated: from the standard start position, after do_move(e2e4),
\* ep_square() is e3, rule50 is 0, fen() ends with "e3 0 1" and the key is
\* startKey ^ psq[W_PAWN][e2] ^ psq[W_PAWN][e4] ^ side ^ enpassant[file e].
C12_StartE2E4 ==
  AfterE2E4 =>
    /\ si[st].epSquare = 20
    /\ si[st].rule50 = 0
    /\ EndsWith(fen(Pos), <<"e", "3", " ", "0", " ", "1">>)
    /\ si[st].key = XorKey(KeyAfterE2E4, Zobrist_enpassant(4))

\* C12 amended: from the standard start position, after do_move(e2e4),
\* ep_square() is SQ_NONE (no black pawn attacks e3), rule50 is 0, fen()
\* ends with "- 0 1" and the key is
\* startKey ^ psq[W_PAWN][e2] ^ psq[W_PAWN][e4] ^ side.
C12_StartE2E4NoEp ==
  AfterE2E4 =>
    /\ si[st].epSquare = SQ_NONE
    /\ si[st].rule50 = 0
    /\ EndsWith(fen(Pos), <<" ", "-", " ", "0", " ", "1">>)
    /\ si[st].key = KeyAfterE2E4

\* C12 witness: e2e4 made from the start position, the pawn now on e4.
C12_Witness == AfterE2E4 /\ board[28] = make_piece(WHITE, PAWN) /\ board[12] = NO_PIECE


\* (a) a pawn of the side to move attacks the square s; (b) a pawn of the
\* other side stands directly in front of s, where a double push ends
EpAttacked(p, s) ==
  \E t \in pieces_ct(p, p.sideToMove, PAWN) : s \in PawnAttacks[p.sideToMove][t]
EpPawnInFront(p, s) ==
  (s - pawn_push(p.sideToMove)) \in pieces_ct(p, Not(p.sideToMove), PAWN)

\* the move m made in p was a two-square pawn push
IsDoublePush(p, m) ==
  /\ type_of(piece_on(p, from_sq(m))) = PAWN
  /\ Abs(to_sq(m) - from_sq(m)) = 16

\* C13: in every state produced by set() or do_move the en passant square
\* is set only if (a) a pawn of the side to move attacks it and (b) an enemy
\* pawn stands directly in front of it; do_move sets it (to the square
\* jumped over) exactly when the move is a two-square pawn push satisfying
\* (a); every other do_move and every do_null_move leaves it SQ_NONE.
C13_EpSquareRule ==
  /\ si[st].epSquare # SQ_NONE =>
        (EpAttacked(Pos, si[st].epSquare) /\ EpPawnInFront(Pos, si[st].epSquare))
  /\ AfterDoMove =>
        si[st].epSquare =
          IF IsDoublePush(Before, LastMove)
             /\ EpAttacked(Pos, to_sq(LastMove) - pawn_push(Before.sideToMove))
            THEN to_sq(LastMove) - pawn_push(Before.sideToMove)
            ELSE SQ_NONE
  /\ (moves # <<>> /\ LastMove = MOVE_NULL) => si[st].epSquare = SQ_NONE

\* C13 witness: a double push next to an enemy pawn has set the square.
C13_Witness ==
  /\ AfterDoMove
  /\ IsDoublePush(Before, LastMove)
  /\ si[st].epSquare # SQ_NONE


\* the last move was a castling; its king and rook squares
Castled == AfterDoMove /\ type_of_move(LastMove) = CASTLING
CastlingKingFrom == from_sq(LastMove)
CastlingRookFrom == to_sq(LastMove)
CastlingKingTo ==
  relative_square(Before.sideToMove,
                  IF CastlingRookFrom > CastlingKingFrom THEN SQ_G1 ELSE SQ_C1)
CastlingRookTo ==
  relative_square(Before.sideToMove,
                  IF CastlingRookFrom > CastlingKingFrom THEN SQ_F1 ELSE SQ_D1)

\* in q exactly one king of colour us stands on kto and a rook of us on rto,
\* and the squares the two pieces left are empty
CastlingPlaced(q, us) ==
  /\ {s \in Squares : q.board[s] = make_piece(us, KING)} = {CastlingKingTo}
  /\ pieces_ct(q, us, KING) = {CastlingKingTo}
  /\ q.board[CastlingRookTo] = make_piece(us, ROOK)
  /\ CastlingRookTo \in pieces_ct(q, us, ROOK)
  /\ Cardinality(pieces_ct(q, us, ROOK)) = Cardinality(pieces_ct(Before, us, ROOK))
  /\ \A s \in {CastlingKingFrom, CastlingRookFrom} \ {CastlingKingTo, CastlingRookTo} :
        q.board[s] = NO_PIECE /\ s \notin pieces(q)

\* C14: for every Chess960 castling, also when the king's destination is
\* the rook's origin, the rook's destination is the king's origin, or one
\* of the two does not move, do_castling<true> leaves exactly one king on
\* the king's destination and a rook on the rook's destination with the
\* origins empty unless they are destinations, and do_castling<false> after
\* it gives back the board and the bitboards.
C14_CastlingRoundTrip ==
  Castled =>
    \E q \in {do_castling(TRUE, Before, Before.sideToMove, CastlingKingFrom, CastlingRookFrom).p} :
      /\ CastlingPlaced(q, Before.sideToMove)
      /\ q.board = board /\ q.byTypeBB = byTypeBB /\ q.byColorBB = byColorBB
      /\ \E u \in {do_castling(FALSE, q, Before.sideToMove, CastlingKingFrom, CastlingRookFrom).p} :
            /\ u.board = Before.board
            /\ u.byTypeBB = Before.byTypeBB
            /\ u.byColorBB = Before.byColorBB
            /\ u.pieceCount = Before.pieceCount

\* C14 witness: a castling that swaps king and rook (king f1, rook g1).
C14_Witness ==
  /\ Castled
  /\ chess960
  /\ CastlingKingTo = CastlingRookFrom
  /\ CastlingRookTo = CastlingKingFrom


\* the last operation was do_null_move; the StateInfo it copied
AfterNullMove == moves # <<>> /\ LastMove = MOVE_NULL
NullMoveOldState == Before.si[Before.st]

\* C15: for a position not in check, do_null_move changes only sideToMove
\* and the pushed StateInfo (board, bitboards, piece counts, castling rights
\* and gamePly stay); the new state has key = old key ^ side ^ (the en
\* passant file of the old epSquare if one was set), epSquare none,
\* pliesFromNull 0, rule50 one more and repetition 0; undo_null_move then
\* gives back the position before do_null_move.
C15_NullMoveFrame ==
  AfterNullMove =>
    /\ board = Before.board
    /\ byTypeBB = Before.byTypeBB
    /\ byColorBB = Before.byColorBB
    /\ pieceCount = Before.pieceCount
    /\ castlingRightsMask = Before.castlingRightsMask
    /\ castlingRookSquare = Before.castlingRookSquare
    /\ castlingPath = Before.castlingPath
    /\ gamePly = Before.gamePly
    /\ chess960 = Before.chess960
    /\ sideToMove = Not(Before.sideToMove)
    /\ st = Before.st + 1
    /\ SubSeq(si, 1, st - 1) = Before.si
    /\ si[st].castlingRights = NullMoveOldState.castlingRights
    /\ si[st].key =
         XorKey(XorKey(NullMoveOldState.key, Zobrist_side),
                IF NullMoveOldState.epSquare # SQ_NONE
                  THEN Zobrist_enpassant(file_of(NullMoveOldState.epSquare)) ELSE {})
    /\ si[st].epSquare = SQ_NONE
    /\ si[st].pliesFromNull = 0
    /\ si[st].rule50 = NullMoveOldState.rule50 + 1
    /\ si[st].repetition = 0
    /\ undo_null_move(Pos) = Before

\* C15 witness: a null move made while an en passant square was set.
C15_Witness == AfterNullMove /\ NullMoveOldState.epSquare # SQ_NONE


\* only do_move and undo_move have been used since set()
NoNullMoveMade == \A n \in 1 .. Len(moves) : moves[n] # MOVE_NULL

\* q equals the current position in piece placement, side to move, castling
\* rights with their rook squares, en passant square, rule50, gamePly and key
SamePosition(q) ==
  /\ q.board = board
  /\ q.byTypeBB = byTypeBB
  /\ q.byColorBB = byColorBB
  /\ q.sideToMove = sideToMove
  /\ q.si[q.st].castlingRights = si[st].castlingRights
  /\ \A r \in si[st].castlingRights : q.castlingRookSquare[r] = castlingRookSquare[r]
  /\ q.si[q.st].epSquare = si[st].epSquare
  /\ q.si[q.st].rule50 = si[st].rule50
  /\ q.gamePly = gamePly
  /\ q.si[q.st].key = si[st].key

\* every rook with a castling right stands on the corner of its wing
CastlingRooksOnCorners ==
  \A r \in si[st].castlingRights :
    file_of(castlingRookSquare[r]) = IF r \in KING_SIDE THEN 7 ELSE 0

\* C16 as stated: for every position reachable by set() followed by legal
\* do_move calls, set(fen(pos), is_chess960) equals pos in piece placement,
\* side to move, castling rights with their rook squares, en passant
\* square, rule50, gamePly and key.
C16_FenRoundTrip ==
  NoNullMoveMade => \E q \in {set(fen(Pos), chess960)} : SamePosition(q)

\* C16 amended: the same for the positions with rule50 / 2 <= gamePly / 2
\* (no longer a half-move clock than game) in which, when is_chess960 is
\* false, every rook with a castling right stands on the corner of its wing.
C16_FenRoundTripConsistent ==
  (/\ NoNullMoveMade
   /\ si[st].rule50 \div 2 <= gamePly \div 2
   /\ (chess960 \/ CastlingRooksOnCorners))
    => \E q \in {set(fen(Pos), chess960)} : SamePosition(q)

\* C16 witness: a position after a double push that set the en passant
\* square, with castling rights left.
C16_Witness ==
  /\ AfterDoMove
  /\ NoNullMoveMade
  /\ si[st].epSquare # SQ_NONE
  /\ si[st].rule50 \div 2 <= gamePly \div 2


\* the piece values, and the thresholds see_ge is asked about: the
\* differences of two piece values and the numbers next to them
SeeValues == {0, 128, 781, 825, 1276, 2538}
Thresholds == {a - b + d : a \in SeeValues, b \in SeeValues, d \in {-1, 0, 1}}

\* the moves see_ge is asked about: the pseudo-legal moves of the position
SeeMoves(p) == {x \in MoveInputs(p) : pseudo_legal(p, x)}

\* C17: see_ge is monotone in its threshold: for every position, every move
\* m and all thresholds u <= t, see_ge(m, t) implies see_ge(m, u).
C17_SeeMonotone ==
  \A m \in SeeMoves(Pos) :
    \E S \in {{t \in Thresholds : see_ge(Pos, m, t)}} :
      \A t \in S : \A u \in Thresholds : u <= t => u \in S

\* C17 witness: a capture that loses material after recaptures, so that
\* see_ge goes through its loop and changes its answer below zero.
C17_Witness ==
  \E m \in SeeMoves(Pos) :
    /\ piece_on(Pos, to_sq(m)) # NO_PIECE
    /\ ~see_ge(Pos, m, 0)
    /\ see_ge(Pos, m, -128)
    /\ more_than_one(attackers(Pos, to_sq(m)) \cap pieces_c(Pos, Not(sideToMove)))

\* m is a NORMAL capture of a pawn by a pawn of the side to move of p
PawnTakesPawn(p, m) ==
  /\ type_of_move(m) = NORMAL
  /\ piece_on(p, from_sq(m)) = make_piece(p.sideToMove, PAWN)
  /\ piece_on(p, to_sq(m)) = make_piece(Not(p.sideToMove), PAWN)
  /\ to_sq(m) \in PawnAttacks[p.sideToMove][from_sq(m)]

\* the pieces of the other side that attack the destination of m
Defenders(p, m) == attackers(p, to_sq(m)) \cap pieces_c(p, Not(p.sideToMove))

\* the captured pawn is defended by exactly one unpinned enemy pawn d, and
\* nothing but d and the capturing pawn attacks the destination
DefendedByOnePawn(p, m, d) ==
  /\ d \in pieces_ct(p, Not(p.sideToMove), PAWN)
  /\ d \notin p.si[p.st].blockersForKing[Not(p.sideToMove)]
  /\ attackers(p, to_sq(m)) = {from_sq(m), d}

\* no further piece attacks the destination once the capturing pawn and
\* the pawns in Gone have left their squares
NoAttackerBehind(p, m, Gone) ==
  attackers_to(p, to_sq(m), pieces(p) \ ({from_sq(m)} \cup Gone)) \subseteq ({from_sq(m)} \cup Gone)

\* C18 as stated: for a NORMAL capture of a pawn by a pawn where the
\* captured pawn is defended by exactly one unpinned enemy pawn and no other
\* piece attacks the destination, see_ge(m, 0) is true and see_ge(m, 1) is
\* false; if the captured pawn is undefended, see_ge(m, 1) is true.
C18_PawnTakesPawn ==
  \A m \in {x \in SeeMoves(Pos) : PawnTakesPawn(Pos, x)} :
    /\ \A d \in Squares :
         DefendedByOnePawn(Pos, m, d) => (see_ge(Pos, m, 0) /\ ~see_ge(Pos, m, 1))
    /\ Defenders(Pos, m) = {} => see_ge(Pos, m, 1)

\* C18 amended: the same when, in addition, no piece attacks the
\* destination from behind the capturing pawn or the defending pawn (in
\* the undefended case: no enemy piece from behind the capturing pawn).
C18_PawnTakesPawnNoXray ==
  \A m \in {x \in SeeMoves(Pos) : PawnTakesPawn(Pos, x)} :
    /\ \A d \in Squares :
         (DefendedByOnePawn(Pos, m, d) /\ NoAttackerBehind(Pos, m, {d}))
           => (see_ge(Pos, m, 0) /\ ~see_ge(Pos, m, 1))
    /\ (/\ Defenders(Pos, m) = {}
        /\ attackers_to(Pos, to_sq(m), pieces(Pos) \ {from_sq(m)})
              \cap pieces_c(Pos, Not(sideToMove)) = {})
         => see_ge(Pos, m, 1)

\* C18 witness: a pawn can take a pawn that one pawn defends, with nothing
\* behind either pawn.
C18_Witness ==
  \E m \in {x \in SeeMoves(Pos) : PawnTakesPawn(Pos, x)} :
    \E d \in Squares :
      /\ DefendedByOnePawn(Pos, m, d)
      /\ NoAttackerBehind(Pos, m, {d})
      /\ see_ge(Pos, m, 0)
      /\ ~see_ge(Pos, m, 1)


\* C19: for every NORMAL move, capture or not, that changes no castling
\* right, with no en passant square set before the move and none set by it,
\* key_after(m) computed before the move equals st->key after do_move(m).
C19_KeyAfterNormalMove ==
  (/\ AfterDoMove
   /\ type_of_move(LastMove) = NORMAL
   /\ si[st].castlingRights = Before.si[Before.st].castlingRights
   /\ Before.si[Before.st].epSquare = SQ_NONE
   /\ si[st].epSquare = SQ_NONE)
    => key_after(Before, LastMove) = si[st].key

\* C19 witness: a NORMAL capture that changed no castling right, with no en
\* passant square before or after.
C19_Witness ==
  /\ AfterDoMove
  /\ type_of_move(LastMove) = NORMAL
  /\ si[st].capturedPiece # NO_PIECE
  /\ si[st].castlingRights = Before.si[Before.st].castlingRights
  /\ Before.si[Before.st].epSquare = SQ_NONE
  /\ si[st].epSquare = SQ_NONE

\* C20: after every mutation the three views of the placement agree: the
\* colour bitboards are disjoint and their union is byTypeBB[ALL_PIECES];
\* board[s] is NO_PIECE exactly on the squares outside byTypeBB[ALL_PIECES],
\* and every other square is in exactly the colour and the type bitboard
\* of board[s]; pieceCount[pc] is the number of squares holding pc.
C20_ViewsAgree ==
  /\ byColorBB[WHITE] \cap byColorBB[BLACK] = {}
  /\ byColorBB[WHITE] \cup byColorBB[BLACK] = byTypeBB[ALL_PIECES]
  /\ \A pt \in PieceTypes : byTypeBB[pt] \subseteq byTypeBB[ALL_PIECES]
  /\ \A s \in Squares : (board[s] = NO_PIECE) <=> (s \notin byTypeBB[ALL_PIECES])
  /\ \A s \in byTypeBB[ALL_PIECES] :
        /\ \A c \in Colors : (s \in byColorBB[c]) <=> (c = color_of(board[s]))
        /\ \A pt \in PieceTypes : (s \in byTypeBB[pt]) <=> (pt = type_of(board[s]))
  /\ \A n \in 1 .. Len(Pieces) :
        pieceCount[Pieces[n]] = Cardinality({s \in Squares : board[s] = Pieces[n]})

\* C20 witness: an en passant capture has been made; the square of the
\* captured pawn, which is not the destination, is empty in every view.
C20_Witness ==
  /\ AfterDoMove
  /\ type_of_move(LastMove) = ENPASSANT
  /\ board[to_sq(LastMove) - pawn_push(Before.sideToMove)] = NO_PIECE
  /\ (to_sq(LastMove) - pawn_push(Before.sideToMove)) \notin byTypeBB[ALL_PIECES]

\* the position set() built, before any move
Root == IF snapshots = <<>> THEN Pos ELSE snapshots[1]
\* the colour a single castling right belongs to
ColorOfRight(r) == IF r \in RightsOf(WHITE) THEN WHITE ELSE BLACK

\* C21: in every state reachable from set() by legal moves and their
\* undoing, for each castling right still enabled a rook of that colour
\* stands on castlingRookSquare[right], the king of that colour stands on
\* the square it had at set(), and castlingRightsMask at both squares
\* contains the right; a move from or to the king square or the rook
\* square of a right (a move of the king, a move or the capture of the
\* rook) leaves that right disabled.
C21_CastlingDescriptors ==
  /\ \A r \in si[st].castlingRights :
        /\ board[castlingRookSquare[r]] = make_piece(ColorOfRight(r), ROOK)
        /\ board[square_KING(Root, ColorOfRight(r))] = make_piece(ColorOfRight(r), KING)
        /\ r \in castlingRightsMask[square_KING(Root, ColorOfRight(r))]
        /\ r \in castlingRightsMask[castlingRookSquare[r]]
  /\ AfterDoMove =>
        \A r \in Before.si[Before.st].castlingRights :
          ({from_sq(LastMove), to_sq(LastMove)}
             \cap {square_KING(Root, ColorOfRight(r)), castlingRookSquare[r]} # {})
            => r \notin si[st].castlingRights

\* C21 witness: a rook that carried a castling right has just been captured
\* where it stood, the right is gone and another right is still enabled.
C21_Witness ==
  /\ AfterDoMove
  /\ type_of(si[st].capturedPiece) = ROOK
  /\ \E r \in Before.si[Before.st].castlingRights :
        /\ castlingRookSquare[r] = to_sq(LastMove)
        /\ ColorOfRight(r) = sideToMove
        /\ r \notin si[st].castlingRights
  /\ si[st].castlingRights # {}

\* RANK_6 (types.h)
RANK_6 == 5

\* C22: after every public mutation (set with any accepted en passant
\* field, do_move, undo_move, do_null_move, undo_null_move), if st->epSquare
\* is not SQ_NONE then its rank relative to the side to move is rank 6.
C22_EpRankSix ==
  si[st].epSquare # SQ_NONE =>
    relative_rank(sideToMove, rank_of(si[st].epSquare)) = RANK_6

\* the castling terms of a key: the draws of Zobrist::castling in it
CastlingPart(k) == k \cap Zobrist_castling(ANY_CASTLING)
\* castlingRightsMask[from] | castlingRightsMask[to] of the last move
LastMoveMask ==
  Before.castlingRightsMask[from_sq(LastMove)] \cup Before.castlingRightsMask[to_sq(LastMove)]

\* C23: after do_move(m), castlingRights is the previous set of rights
\* without the rights of castlingRightsMask[from] | castlingRightsMask[to]
\* (a castling move clears both rights of the mover), and the key changes
\* by exactly Zobrist::castling[removed rights]; along the moves and null
\* moves made and not undone the set of castling rights never grows.
C23_RightsOnlyShrink ==
  /\ AfterDoMove =>
        /\ si[st].castlingRights = Before.si[Before.st].castlingRights \ LastMoveMask
        /\ type_of_move(LastMove) = CASTLING =>
              si[st].castlingRights \cap RightsOf(Before.sideToMove) = {}
        /\ CastlingPart(si[st].key) =
              XorKey(CastlingPart(Before.si[Before.st].key),
                     Zobrist_castling(Before.si[Before.st].castlingRights \ si[st].castlingRights))
  /\ \A i \in 2 .. st : si[i].castlingRights \subseteq si[i - 1].castlingRights

\* C23 witness: a move to a square whose right was lost earlier has been
\* made while other rights were enabled, and after it some right is left.
C23_Witness ==
  /\ AfterDoMove
  /\ LastMoveMask \ Before.si[Before.st].castlingRights # {}
  /\ Before.si[Before.st].castlingRights # {}
  /\ \E i \in 2 .. st : si[i].castlingRights # si[i - 1].castlingRights

\* whether the last move took a piece: an en passant capture, or a move
\* other than castling to an occupied square
LastMoveCaptured ==
  \/ type_of_move(LastMove) = ENPASSANT
  \/ type_of_move(LastMove) # CASTLING /\ piece_on(Before, to_sq(LastMove)) # NO_PIECE
LastMoveOfPawn == type_of(moved_piece(Before, LastMove)) = PAWN

\* C24: after do_move(m), st->rule50 is 0 if m captured a piece (ordinary
\* or en passant) or moved a pawn (promotions included) and the previous
\* rule50 + 1 otherwise; a castling move is never a capture: capturedPiece
\* is NO_PIECE, rule50 is not reset and no piece leaves the board; gamePly
\* and pliesFromNull grow by exactly 1.
C24_Rule50AndCounters ==
  AfterDoMove =>
    /\ si[st].rule50 = IF LastMoveCaptured \/ LastMoveOfPawn THEN 0
                        ELSE Before.si[Before.st].rule50 + 1
    /\ (si[st].capturedPiece # NO_PIECE) <=> LastMoveCaptured
    /\ type_of_move(LastMove) = CASTLING =>
          /\ si[st].capturedPiece = NO_PIECE
          /\ si[st].rule50 = Before.si[Before.st].rule50 + 1
          /\ pieceCount = Before.pieceCount
          /\ Cardinality(byTypeBB[ALL_PIECES]) = Cardinality(Before.byTypeBB[ALL_PIECES])
          /\ \A c \in Colors : Cardinality(byColorBB[c]) = Cardinality(Before.byColorBB[c])
    /\ gamePly = Before.gamePly + 1
    /\ si[st].pliesFromNull = Before.si[Before.st].pliesFromNull + 1

\* C24 witness: a castling move made when the half-move clock was running;
\* the clock went on to 2.
C24_Witness ==
  /\ AfterDoMove
  /\ type_of_move(LastMove) = CASTLING
  /\ Before.si[Before.st].rule50 = 1
  /\ si[st].rule50 = 2

\* the entries of the table
Entries == {table[c][i] : c \in 0 .. (ClusterCount - 1), i \in 0 .. (ClusterSize - 1)}
\* the relative age the replacement loop subtracts from the depth
Age(e) == e.depth8 - ReplaceValue(e, generation8)

\* C25: for every generation8 that is a multiple of 8 in 0..248 and every
\* 8-bit genBound8, (263 + generation8 - genBound8) & 0xF8 is
\* 8 * ((generation8/8 - genBound8/8) mod 32): the age does not depend on
\* the low three bits of the entry, an entry of the current generation has
\* age 0 and an older one a larger age, also after generation8 has wrapped.
C25_RelativeAge ==
  /\ generation8 \in Generations
  /\ \A e \in Entries :
        /\ e.genBound8 \in 0 .. 255
        /\ Age(e) = 8 * (((generation8 \div 8) - (e.genBound8 \div 8)) % 32)
        /\ Age(e) = Age([e EXCEPT !.genBound8 = 8 * (@ \div 8)])
        /\ (e.genBound8 \div 8 = generation8 \div 8) <=> (Age(e) = 0)
        /\ Age(e) \in {8 * n : n \in 0 .. 31}

\* C25 witness: generation8 has just wrapped from 248 to 0 and the table
\* holds an entry written in generation 248 with PV flag and bound set.
C25_Witness ==
  /\ lastOp = "new_search"
  /\ generation8 = 0
  /\ \E e \in Entries : e.genBound8 = 255 /\ Age(e) = 8

\* the clusters the thread idx zeroes
ClearPart(idx) ==
  LET r == ClearRange(clusterCount, threads.main.threadCount, idx)
  IN r.start .. (r.start + r.len - 1)

\* C26: for every threadCount >= 1 and every clusterCount, smaller than
\* threadCount or not divisible by it included, the parts [start, start+len)
\* the clear() threads zero are pairwise disjoint and their union is
\* [0, clusterCount); clear() returns only after every thread has finished,
\* so under any interleaving every entry is zero when clear() returns.
C26_ClearPartition ==
  /\ \A i, j \in 0 .. (threads.main.threadCount - 1) :
        i # j => ClearPart(i) \cap ClearPart(j) = {}
  /\ UNION {ClearPart(i) : i \in 0 .. (threads.main.threadCount - 1)} = 0 .. (clusterCount - 1)
  /\ \A w \in 1 .. Len(threads.workers) :
        threads.workers[w].pc = "memset" => threads.workers[w].pos \in ClearPart(threads.workers[w].idx)
  /\ threads.main.pc = "returned" =>
        /\ Len(threads.workers) = threads.main.threadCount
        /\ \A w \in 1 .. Len(threads.workers) : threads.workers[w].pc = "done"
        /\ \A c \in DOMAIN table : table[c] = ZeroCluster

\* C26 witness: clear() has returned with three threads and two clusters,
\* fewer clusters than threads and not a multiple of the thread count.
C26_Witness ==
  /\ threads.main.pc = "returned"
  /\ threads.main.threadCount = 3
  /\ clusterCount = 2
  /\ \A c \in DOMAIN table : table[c] = ZeroCluster

\* no worker is inside save()
NoSaveRunning ==
  \A w \in 1 .. Len(threads.workers) : threads.workers[w].pc \in {"idle", "probed"}
\* the slots of the table
Slots == {<<c, i>> : c \in 0 .. (ClusterCount - 1), i \in 0 .. (ClusterSize - 1)}
\* some data field of the entry in slot s was written by a save for another key
Torn(s) ==
  \E f \in DataFields : threads.writer[s[1]][s[2]][f] # table[s[1]][s[2]].key16

\* C27: in single-threaded use, after any sequence of probe and save calls
\* every entry's move16, value16, eval16, depth8 and bound were written by
\* saves whose key >> 48 is the entry's key16, and each save() has the
\* effect of the function as a whole; entries with a field of another key
\* (reached when two workers interleave save() calls for different keys
\* on one entry, see the witness) arise with two workers only.
C27_SingleThreadNotTorn ==
  /\ (Len(threads.workers) = 1 /\ NoSaveRunning) => \A s \in Slots : ~Torn(s)
  /\ \A w \in 1 .. Len(threads.workers) :
        (Len(threads.workers) = 1 /\ threads.workers[w].pc = "idle"
           /\ "a" \in DOMAIN threads.workers[w]) =>
          LET me == threads.workers[w]
          IN table[me.tte[1]][me.tte[2]] =
               save(me.before, generation8, me.k, me.a.v, me.a.pv, me.a.b, me.a.d, me.a.m, me.a.ev)

\* C27 witness: two workers have finished their save() calls for different
\* keys on the same entry; the entry has the key16 of one key and a data
\* field written for the other, and a probe of the first key reports
\* found = true and returns that entry.
C27_Witness ==
  /\ Len(threads.workers) = 2
  /\ NoSaveRunning
  /\ \A w \in 1 .. 2 : threads.workers[w].rounds = 0 /\ threads.workers[w].pc = "idle"
  /\ threads.workers[1].k # threads.workers[2].k
  /\ threads.workers[1].tte = threads.workers[2].tte
  /\ \E k \in SmpKeys :
        /\ probe(table, generation8, k).found
        /\ Torn(probe(table, generation8, k).tte)
        /\ table[probe(table, generation8, k).tte[1]][probe(table, generation8, k).tte[2]].key16
             = key16_of(k)

\* a step of the searcher that is a call of probe
ProbeStep == lastOp' = "probe" /\ ttOps' = ttOps + 1
\* the entry in the slot s of a table
EntryAt(tbl, s) == tbl[s[1]][s[2]]
\* the fields probe must leave alone
KeptFields(e) == <<e.key16, e.move16, e.value16, e.eval16, e.depth8>>

\* what probe may change: the entry it returns is in the cluster of the key;
\* no entry changes key16, move16, value16, eval16 or depth8 and no other
\* entry changes at all; a returned entry with key16 0 or the key's key16
\* gets the current generation in the top five bits of genBound8 and keeps
\* the low three; with a replacement victim the table is unchanged
ProbeFrame ==
  /\ tte'[1] = first_entry(ttKey')
  /\ \A s \in Slots : KeptFields(EntryAt(table', s)) = KeptFields(EntryAt(table, s))
  /\ \A s \in Slots \ {tte'} : EntryAt(table', s) = EntryAt(table, s)
  /\ IF EntryAt(table, tte').key16 \in {0, key16_of(ttKey')}
       THEN /\ EntryAt(table', tte').genBound8 \div 8 = generation8 \div 8
            /\ EntryAt(table', tte').genBound8 % 8 = EntryAt(table, tte').genBound8 % 8
       ELSE table' = table

\* C28: probe(key) never changes key16, move16, value16, eval16 or depth8
\* of any entry and touches no entry outside the key's cluster; when it
\* returns an entry whose key16 is 0 or key >> 48 it rewrites only that
\* entry's genBound8, to the current generation8 in the top five bits and
\* the old PV flag and bound in the low three; when it returns a
\* replacement victim it writes nothing.
C28_ProbeFrame == [][ProbeStep => ProbeFrame]_vars

\* C28 witness: a probe has found the key of the last save, which was made
\* in another generation with the PV flag and an exact bound; the entry now
\* carries the current generation and still the flag and the bound.
C28_Witness ==
  /\ lastOp = "probe"
  /\ found
  /\ lastSave # <<>>
  /\ lastSave.k = ttKey
  /\ lastSave.gen # generation8
  /\ EntryAt(table, tte).genBound8 = generation8 + 7

\* s is the beginning of t
IsPrefix(s, t) == Len(s) <= Len(t) /\ s = SubSeq(t, 1, Len(s))
\* "clear" is in the log of resize()
Cleared == \E n \in 1 .. Len(threads.main.log) : threads.main.log[n] = "clear"

\* C29: resize(mb) waits until the search has finished, then frees the
\* old block, then allocates floor(mb * 2^20 / sizeof(Cluster)) clusters,
\* then zero-fills; the old table is never freed while a search is
\* running; when the allocation fails the process is terminated after a
\* message on stderr, and clear(), probe and save are never executed on
\* the table that was not allocated.
C29_ResizeOrder ==
  /\ \/ IsPrefix(threads.main.log, <<"wait", "free", "malloc", "clear">>)
     \/ IsPrefix(threads.main.log, <<"wait", "free", "malloc", "message", "exit">>)
  /\ mem.state # "allocated" => threads.workers[1].pc = "idle"
  /\ threads.main.pc \in {"free", "malloc", "check", "done", "exited"} =>
        threads.workers[1].pc = "idle"
  /\ ~threads.workers[1].dangling
  /\ threads.main.pc \in {"free", "malloc", "check", "done", "exited", "idle"} =>
        mem.clusterCount * SizeofCluster = threads.main.mbSize * 1024 * 1024
  /\ Cleared => mem.state = "allocated"
  /\ threads.main.pc = "done" => table = ZeroTable
  /\ threads.main.pc = "exited" =>
        /\ threads.main.log = <<"wait", "free", "malloc", "message", "exit">>
        /\ mem.state = "null"

\* C29 witness: resize() was called while the search was probing and
\* saving, the allocation failed and the process has exited.
C29_Witness ==
  /\ threads.main.pc = "exited"
  /\ threads.workers[1].steps > 0
  /\ mem.state = "null"
  /\ ~Cleared

\* the mask of a set of single rights, and a ^ b, a & b on masks
MaskOf(rs) ==   (IF WHITE_OO \in rs THEN WHITE_OO ELSE 0) + (IF WHITE_OOO \in rs THEN WHITE_OOO ELSE 0)
              + (IF BLACK_OO \in rs THEN BLACK_OO ELSE 0) + (IF BLACK_OOO \in rs THEN BLACK_OOO ELSE 0)
MaskXor(a, b) == MaskOf(XorBB(RightsOfMask(a), RightsOfMask(b)))
MaskAnd(a, b) == MaskOf(RightsOfMask(a) \cap RightsOfMask(b))
MaskAndNot(a, b) == MaskOf(RightsOfMask(a) \ RightsOfMask(b))
\* the castling loop of init() is over
CastlingFilled == zobrist.pc \in {"side", "done"} \/ (zobrist.pc = "castling" /\ zobrist.cr > 15)
\* the draws taken by the loops before the castling loop
DrawsBeforeCastling == 64 * Len(Pieces) + 8
\* castling[r] if the mask m has the right r, zero otherwise
SelectedEntry(m, r) == IF r \in RightsOfMask(m) THEN zobrist.castling[r] ELSE {}

\* C30: once Position::init() has filled Zobrist::castling, castling[0] is
\* zero and castling[a] ^ castling[b] = castling[a XOR b] for all masks a, b
\* of 0..15; castling[m] is the XOR of the four single-bit entries m
\* selects, each of them a non-zero draw; the loop over the 16 entries has
\* taken exactly four draws; and for every old mask and every removed mask
\* castling[old & removed] = castling[old] ^ castling[old & ~removed], which
\* is the update do_move applies to the key.  At the end of init() the
\* tables are the ones the position model reads.
C30_CastlingComposable ==
  /\ CastlingFilled =>
       /\ zobrist.castling[0] = {}
       /\ \A a, b \in 0 .. 15 :
             XorKey(zobrist.castling[a], zobrist.castling[b]) = zobrist.castling[MaskXor(a, b)]
       /\ \A m \in 0 .. 15 :
             zobrist.castling[m] =
               XorKey(XorKey(SelectedEntry(m, WHITE_OO), SelectedEntry(m, WHITE_OOO)),
                      XorKey(SelectedEntry(m, BLACK_OO), SelectedEntry(m, BLACK_OOO)))
       /\ \A r \in ANY_CASTLING : zobrist.castling[r] # {}
       /\ zobrist.draws - DrawsBeforeCastling - (IF zobrist.pc = "castling" THEN 0 ELSE IF zobrist.pc = "side" THEN 1 ELSE 2) = 4
       /\ \A old, removed \in 0 .. 15 :
             zobrist.castling[MaskAnd(old, removed)] =
               XorKey(zobrist.castling[old], zobrist.castling[MaskAndNot(old, removed)])
  /\ zobrist.pc = "done" => zobrist = ZobristReady

\* init() has finished: sixteen entries from four draws
C30_Witness ==
  /\ zobrist.pc = "done"
  /\ zobrist.draws = 782
  /\ zobrist.castling[15] = {777, 778, 779, 780}
  /\ zobrist.castling[5] = {777, 779}

\* the counters of the string set() was last called with, where it returned
SetReturned == threads.main.pc = "position"
BlackBit == IF threads.main.black THEN 1 ELSE 0
\* max(fullmove, rule50 / 2 + 1) - 1, half of the gamePly of the formula
HalfPly == Max(Max(threads.main.fullmove, (threads.main.rule50 \div 2) + 1) - 1, 0)

\* C31: after set(fen), gamePly = max(2 * (max(fullmove, rule50 / 2 + 1) - 1), 0)
\* + 1 if Black is to move (stated on the halves, the division being exact);
\* so for every fullmove >= 0 and rule50 >= 0, gamePly >= 0,
\* gamePly >= rule50 - 1, and gamePly is odd exactly when Black is to move.
C31_GamePlyAfterSet ==
  SetReturned =>
    /\ si[st].rule50 = threads.main.rule50
    /\ (sideToMove = BLACK) = threads.main.black
    /\ (gamePly - BlackBit) % 2 = 0
    /\ (gamePly - BlackBit) \div 2 = HalfPly
    /\ gamePly >= 0
    /\ gamePly >= threads.main.rule50 - 1
    /\ (gamePly % 2 = 1) = (sideToMove = BLACK)

\* C31 where the product has a value in an int: the same for every string
\* whose max(fullmove, rule50 / 2 + 1) - 1 is at most INT_MAX / 2.
C31_GamePlyWithoutOverflow ==
  (SetReturned /\ ~GamePlyOverflows(threads.main.rule50, threads.main.fullmove)) =>
    /\ si[st].rule50 = threads.main.rule50
    /\ (gamePly - BlackBit) % 2 = 0
    /\ (gamePly - BlackBit) \div 2 = HalfPly
    /\ gamePly >= 0
    /\ gamePly >= threads.main.rule50 - 1
    /\ (gamePly % 2 = 1) = (sideToMove = BLACK)

\* C31: set() returned for fullmove 0 and a clock of 100 with Black to move
C31_Witness ==
  /\ SetReturned /\ threads.main.fullmove = 0 /\ threads.main.rule50 = 100 /\ threads.main.black
  /\ gamePly = 101

\* C31: the largest gamePly an int holds, from fullmove INT_MAX / 2 + 1
C31_WitnessLargest ==
  /\ SetReturned /\ threads.main.fullmove = (INT_MAX \div 2) + 1 /\ threads.main.black
  /\ gamePly = INT_MAX

\* the StateInfo indices the repetition scan of do_move dereferences from
\* the iteration i on, stp being the index it holds (0 is the null pointer;
\* the scan ends where it would dereference it)
RECURSIVE ScanDerefs(_, _, _, _, _)
ScanDerefs(sis, n, stp, i, end) ==
  CASE i > end -> {}
    [] i <= end /\ stp <= 0 -> {0}
    [] i <= end /\ stp = 1 -> {1, 0}
    [] i <= end /\ stp = 2 -> {2, 1, 0}
    [] i <= end /\ stp > 2 /\ sis[stp - 2].key = sis[n].key -> {stp, stp - 1, stp - 2}
    [] OTHER -> {stp, stp - 1, stp - 2} \cup ScanDerefs(sis, n, stp - 2, i + 2, end)

\* the same for the whole scan of the do_move that made si[st] (lines 819-839)
DoMoveScanDerefs ==
  IF Min(si[st].rule50, si[st].pliesFromNull) < 4 THEN {}
  ELSE IF st = 1 THEN {1, 0}
  ELSE {st, st - 1} \cup ScanDerefs(si, st, st - 2, 4, Min(si[st].rule50, si[st].pliesFromNull))

\* Position::has_repeated() from stc on: the answer and the indices it dereferences
RECURSIVE HasRepeatedFrom(_, _, _)
HasRepeatedFrom(sis, stc, end) ==
  CASE end < 4 -> [repeated |-> FALSE, derefs |-> {}]
    [] end >= 4 /\ stc <= 0 -> [repeated |-> FALSE, derefs |-> {0}]
    [] end >= 4 /\ stc > 0 /\ sis[stc].repetition # 0 -> [repeated |-> TRUE, derefs |-> {stc}]
    [] OTHER -> [HasRepeatedFrom(sis, stc - 1, end - 1) EXCEPT !.derefs = @ \cup {stc}]
has_repeated(p) == HasRepeatedFrom(p.si, p.st, Min(p.si[p.st].rule50, p.si[p.st].pliesFromNull))

\* C32: in every state reached from set() by do_move, do_null_move and their
\* undos, pliesFromNull of st, and of every StateInfo of the chain, is at
\* most the number of its ancestors (set() and do_null_move leave it 0,
\* do_move adds one ancestor and 1); so the repetition scan of do_move and
\* the walk of has_repeated never dereference a null previous pointer,
\* whatever half-move clock the FEN gave.
C32_PliesFromNullBounded ==
  /\ \A j \in 1 .. st : si[j].pliesFromNull <= j - 1
  /\ si[1].pliesFromNull = 0
  /\ (moves # <<>> /\ LastMove = MOVE_NULL) => si[st].pliesFromNull = 0
  /\ AfterDoMove =>
       /\ st = Before.st + 1
       /\ si[st].pliesFromNull = Before.si[Before.st].pliesFromNull + 1
       /\ 0 \notin DoMoveScanDerefs
  /\ 0 \notin has_repeated(Pos).derefs

\* C32 witness: the half-move clock of the FEN is ahead of the chain, and the
\* scan of the last do_move went back to the StateInfo of set() without a match
C32_Witness ==
  /\ AfterDoMove
  /\ si[st].rule50 > st - 1
  /\ si[st].pliesFromNull = st - 1
  /\ 1 \in DoMoveScanDerefs
  /\ si[st].repetition = 0
  /\ has_repeated(Pos).derefs # {}

\* the loop was left, by its last iteration
TraceEnds(t) == t = <<>> \/ (t[Len(t)].exit /\ \A k \in 1 .. (Len(t) - 1) : ~t[k].exit)
\* every iteration that goes on takes one piece off occupied
TraceRemoves(t) ==
  \A k \in 1 .. Len(t) : ~t[k].exit => (t[k].used \in t[k].before /\ t[k].after = t[k].before \ {t[k].used})
\* no attacker is taken twice
TraceNoReuse(t) ==
  \A j, k \in 1 .. Len(t) : (j < k /\ ~t[j].exit /\ ~t[k].exit) => t[j].used # t[k].used
\* the attackers taken by the iterations
TraceUsed(t) == {t[k].used : k \in {j \in 1 .. Len(t) : ~t[j].exit}}
\* the thresholds the loop is followed with: differences of two piece values
SeeLoopThresholds == {a - b : a \in SeeValues, b \in SeeValues}
\* the pieces that attack s directly or through other pieces
XrayAttackers(p, s) == attackers_to(p, s, {})

\* C33 as stated: for every position and every move m the loop of see_ge
\* terminates, every iteration either leaves the loop or takes one piece
\* off occupied, no attacker is used twice, and the number of iterations is
\* at most the number of pieces attacking the destination square (counted
\* here with the pieces that attack it through other pieces).
C33_SeeLoopBoundedByAttackers ==
  \A m \in SeeMoves(Pos) : \A th \in SeeLoopThresholds :
    \E t \in {see_ge_trace(Pos, m, th)} :
      /\ TraceEnds(t) /\ TraceRemoves(t) /\ TraceNoReuse(t)
      /\ Len(t) <= Cardinality(XrayAttackers(Pos, to_sq(m)))

\* C33 amended: the same, the number of iterations being at most one more
\* than the number of pieces other than the moving one that attack the
\* destination square directly or through other pieces, and the attackers
\* used are among these.
C33_SeeLoopTerminates ==
  \A m \in SeeMoves(Pos) : \A th \in SeeLoopThresholds :
    \E t \in {see_ge_trace(Pos, m, th)} :
      /\ TraceEnds(t) /\ TraceRemoves(t) /\ TraceNoReuse(t)
      /\ TraceUsed(t) \subseteq XrayAttackers(Pos, to_sq(m)) \ {from_sq(m)}
      /\ Len(t) <= 1 + Cardinality(XrayAttackers(Pos, to_sq(m)) \ {from_sq(m)})
      /\ Len(t) = 1 + Cardinality(TraceUsed(t)) \/ t = <<>>

\* C33 witness: a loop of at least four iterations that took an attacker
\* which stood behind another one when the loop began
C33_Witness ==
  \E m \in SeeMoves(Pos) : \E th \in SeeLoopThresholds :
    \E t \in {see_ge_trace(Pos, m, th)} :
      /\ Len(t) >= 4
      /\ TraceUsed(t) \ attackers(Pos, to_sq(m)) # {}

====
